---- MODULE Spec2Model ----
(***************************************************************************)
(* TimePilot scheduling engine (src/src/components/TaskList.tsx, the       *)
(* `scheduling` utility module, lines 447-2995) and the App handlers that  *)
(* call it (src/unnamed/part_000).                                         *)
(*                                                                         *)
(* Representation.                                                         *)
(*  - A calendar date 'YYYY-MM-DD' is a day number; its weekday is the day *)
(*    number modulo 7 (day 0 is a Sunday).  String comparison of two dates *)
(*    is comparison of day numbers.  The clock is (today, nowMin): the     *)
(*    current date and the minute of the day; the time zone is UTC, where  *)
(*    Date.getDay()/setHours() and toISOString() agree on the date.        *)
(*  - A time string 'HH:MM' is the pair <<h, m>>; the empty string '' is   *)
(*    the empty tuple.  Parsing and formatting are separate operators.     *)
(*  - timers holds the callbacks handed to setTimeout(..., 0) that have    *)
(*    not run yet, oldest first, each with the values its closure holds.   *)
(*  - A number of hours (allocatedHours, estimatedHours,                   *)
(*    dailyAvailableHours and every intermediate of the allocation) is an  *)
(*    exact fixed-point number of ticks, TicksPerMinute ticks to the       *)
(*    minute, fine enough for the quotients the allocation forms.          *)
(***************************************************************************)
EXTENDS Integers, Sequences, FiniteSets, TLC

VARIABLES tasks, settings, fixedCommitments, studyPlans, today, nowMin, last,
          timers

vars == <<tasks, settings, fixedCommitments, studyPlans, today, nowMin, last, timers>>

----------------------------------------------------------------------------
(* Numbers, dates and time strings *)

TicksPerMinute == 420 * 420
TicksPerHour == 60 * TicksPerMinute

Mins(m) == m * TicksPerMinute
Hrs(h) == h * TicksPerHour

Min2(a, b) == IF a <= b THEN a ELSE b
Max2(a, b) == IF a >= b THEN a ELSE b

\* Math.round(x * 60) / 60 : to the nearest minute, halves upwards
RoundToMinute(x) == ((x + (TicksPerMinute \div 2)) \div TicksPerMinute) * TicksPerMinute

\* Math.ceil(requiredHours * 60)
CeilMinutes(x) == (x + TicksPerMinute - 1) \div TicksPerMinute

\* Math.round(sessionDuration * 60)
RoundMinutes(x) == (x + (TicksPerMinute \div 2)) \div TicksPerMinute

\* Date.getDay()
getDay(date) == date % 7

NoDate == -1
Empty == <<>>

\* an array built element by element, as a sequence value
AsSeq(f) == SubSeq(f, 1, Len(f))

\* `${h.toString().padStart(2,'0')}:${m.toString().padStart(2,'0')}`
HHMM(c) == <<c \div 60, c % 60>>

\* const [sh, sm] = t.split(":").map(Number); sh * 60 + (sm || 0)
\* (Number('') is 0, the missing minute is undefined)
slotMinutes(t) == IF t = Empty THEN 0 ELSE t[1] * 60 + t[2]

\* a.localeCompare(b) < 0 on zero-padded time strings
TimeStrLess(a, b) ==
  IF a = Empty THEN b # Empty
  ELSE IF b = Empty THEN FALSE
  ELSE a[1] < b[1] \/ (a[1] = b[1] /\ a[2] < b[2])

\* Array.prototype.sort with a consistent comparator: stable
StableSort(s, _ \prec _) ==
  LET n == Len(s)
      Rank(i) == Cardinality({j \in 1..n : s[j] \prec s[i] \/ (~(s[i] \prec s[j]) /\ j < i)})
  IN AsSeq([k \in 1..n |-> s[CHOOSE i \in 1..n : Rank(i) = k - 1]])

\* the elements of an array at the indices kept, in order
RECURSIVE SelectIdx(_, _, _)
SelectIdx(s, keep, i) ==
  IF i > Len(s) THEN <<>>
  ELSE IF i \in keep THEN <<s[i]>> \o SelectIdx(s, keep, i + 1)
  ELSE SelectIdx(s, keep, i + 1)

RECURSIVE SumHours(_)
SumHours(sessions) ==
  IF sessions = <<>> THEN 0
  ELSE Head(sessions).allocatedHours + SumHours(Tail(sessions))

RECURSIVE Flatten(_)
Flatten(ss) == IF ss = <<>> THEN <<>> ELSE Head(ss) \o Flatten(Tail(ss))

\* plans.flatMap(p => p.plannedTasks)
AllSessions(plans) == Flatten(AsSeq([i \in 1..Len(plans) |-> plans[i].plannedTasks]))

\* plans.find(p => p.date === date), as an index (0: none)
PlanIndex(plans, date) ==
  IF \E i \in 1..Len(plans) : plans[i].date = date
  THEN CHOOSE i \in 1..Len(plans) :
         plans[i].date = date /\ \A j \in 1..(i - 1) : plans[j].date # date
  ELSE 0

----------------------------------------------------------------------------
(* Session, plan *)

NewSession(taskId, hours, number, start, end) ==
  [taskId |-> taskId, startTime |-> start, endTime |-> end,
   allocatedHours |-> hours, sessionNumber |-> number, status |-> "scheduled",
   done |-> FALSE, originalTime |-> Empty, originalDate |-> NoDate,
   isManualOverride |-> FALSE]

NewPlan(date) ==
  [date |-> date, plannedTasks |-> <<>>, totalStudyHours |-> 0,
   availableHours |-> settings.dailyAvailableHours]

calculateTotalStudyHours(plannedTasks) ==
  SumHours(SelectSeq(plannedTasks, LAMBDA s : s.done \/ s.status = "skipped"))

\* session.originalTime && session.originalDate
HasOriginal(session) == session.originalTime # Empty /\ session.originalDate # NoDate

\* a variant that never looks at the redistribution stamp
statusAtUnstamped(session, planDate, day, minute) ==
  IF session.done \/ session.status = "completed" THEN "completed"
  ELSE IF session.status = "skipped" THEN "completed"
  ELSE IF planDate < day THEN "missed"
  ELSE IF HasOriginal(session) THEN "rescheduled"
  ELSE "scheduled"

\* checkSessionStatus with an explicit clock
statusAt(session, planDate, day, minute) ==
  IF session.done \/ session.status = "completed" THEN "completed"
  ELSE IF session.status = "skipped" THEN "completed"
  ELSE IF HasOriginal(session) THEN "rescheduled"
  ELSE IF planDate < day THEN
    (IF HasOriginal(session) THEN "scheduled" ELSE "missed")
  ELSE IF planDate = day THEN
    (IF session.startTime # Empty /\ minute < slotMinutes(session.startTime)
       THEN "scheduled"
     ELSE IF session.startTime # Empty /\ session.endTime # Empty
             /\ minute >= slotMinutes(session.startTime)
             /\ minute <= slotMinutes(session.endTime)
       THEN "in_progress"
     ELSE "overdue")
  ELSE "scheduled"

checkSessionStatus(session, planDate) == statusAt(session, planDate, today, nowMin)

isMissedOrRedistributedSession(session, planDate) ==
  \/ checkSessionStatus(session, planDate) = "missed"
  \/ session.isManualOverride
  \/ HasOriginal(session)

----------------------------------------------------------------------------
(* Slot Finder *)

\* the commitments that apply to the date (the filter callers build as
\* commitmentsForDay / dayCommitments)
AppliesToDate(c, date) ==
  IF c.recurring THEN getDay(date) \in c.daysOfWeek ELSE date \in c.specificDates

HasModified(c, date) == date \in DOMAIN c.modifiedOccurrences

\* the busy interval findNextAvailableTimeSlot pushes for one commitment
SlotFinderInterval(c, targetDate) ==
  LET s == slotMinutes(c.startTime)
      e == slotMinutes(c.endTime)
  IN IF HasModified(c, targetDate) THEN
       LET modified == c.modifiedOccurrences[targetDate]
       IN IF modified.startTime # Empty
            THEN [start |-> slotMinutes(modified.startTime), end |-> e]
          ELSE IF modified.endTime # Empty
            THEN [start |-> s, end |-> slotMinutes(modified.endTime)]
          ELSE [start |-> s, end |-> e]
     ELSE [start |-> s, end |-> e]

RECURSIVE WalkBusy(_, _, _, _)
\* the for-loop over the sorted busy intervals: the start of the slot, or -1
WalkBusy(busy, current, requiredMinutes, buffer) ==
  IF busy = <<>> THEN [found |-> FALSE, current |-> current]
  ELSE IF Head(busy).start - current >= requiredMinutes
    THEN [found |-> TRUE, current |-> current]
  ELSE WalkBusy(Tail(busy), Max2(current, Head(busy).end + buffer),
                requiredMinutes, buffer)

NoSlot == [found |-> FALSE, start |-> Empty, end |-> Empty]

\* busyIntervals: the sessions, then the commitments not deleted on the
\* date, sorted by start
BusyIntervals(existingSessions, commitments, targetDate) ==
  StableSort(
    AsSeq([i \in 1..Len(existingSessions) |->
       [start |-> slotMinutes(existingSessions[i].startTime),
        end |-> slotMinutes(existingSessions[i].endTime)]])
    \o AsSeq([i \in 1..Len(commitments) |-> SlotFinderInterval(commitments[i], targetDate)]),
    LAMBDA a, b : a.start < b.start)

\* the slot at the position the walk stopped at, if it ends by endOfDay
SlotAfterWalk(w, requiredMinutes, endOfDay) ==
  IF w.found \/ endOfDay - w.current >= requiredMinutes
    THEN [found |-> TRUE, start |-> HHMM(w.current),
          end |-> HHMM(w.current + requiredMinutes)]
  ELSE NoSlot

findNextAvailableTimeSlot(requiredHours, existingSessions, commitments, studyWindowStartHour, studyWindowEndHour, bufferTimeBetweenSessions, targetDate) ==
  SlotAfterWalk(
    WalkBusy(BusyIntervals(existingSessions,
                           SelectSeq(commitments,
                                     LAMBDA c : targetDate \notin c.deletedOccurrences),
                           targetDate),
             studyWindowStartHour * 60, CeilMinutes(requiredHours),
             bufferTimeBetweenSessions),
    CeilMinutes(requiredHours), studyWindowEndHour * 60)

\* settings.studyWindowStartHour || 6, settings.studyWindowEndHour || 23
WindowStart == IF settings.studyWindowStartHour = 0 THEN 6 ELSE settings.studyWindowStartHour
WindowEnd == IF settings.studyWindowEndHour = 0 THEN 23 ELSE settings.studyWindowEndHour
\* settings.minSessionLength || 15, in hours
MinSessionLength ==
  Mins(IF settings.minSessionLength = 0 THEN 15 ELSE settings.minSessionLength)
\* Math.min(4, settings.dailyAvailableHours)
MaxSessionLength == Min2(Hrs(4), settings.dailyAvailableHours)

----------------------------------------------------------------------------
(* Plan Generator: common setup *)

maxRedistributionRounds == 10

\* importance first, then the earlier deadline (comparator < 0)
TaskLess(a, b) ==
  IF a.importance # b.importance THEN a.importance ELSE a.deadline < b.deadline

\* tasks.filter(pending && estimatedHours > 0).sort(...)
PendingSorted(ts) ==
  StableSort(SelectSeq(ts, LAMBDA t : t.status = "pending" /\ t.estimatedHours > 0),
             TaskLess)

\* tasks.find(t => t.id === id), as an index (0: none)
TaskIndex(ts, id) ==
  IF \E i \in 1..Len(ts) : ts[i].id = id
  THEN CHOOSE i \in 1..Len(ts) : ts[i].id = id /\ \A j \in 1..(i - 1) : ts[j].id # id
  ELSE 0

RECURSIVE SortedSeqOf(_)
SortedSeqOf(S) ==
  IF S = {} THEN <<>>
  ELSE LET m == CHOOSE x \in S : \A y \in S : x <= y
       IN <<m>> \o SortedSeqOf(S \ {m})

\* the deadline shifted by settings.bufferDays, as a date string
AdjustedDeadline(task) ==
  IF settings.bufferDays > 0 THEN task.deadline - settings.bufferDays ELSE task.deadline

\* availableDays: the work days from now up to the latest deadline (the
\* loop compares instants: now carries the time of day, a deadline is the
\* midnight that starts its date), then every task's adjusted deadline day
\* that is a work day, sorted
AvailableDays(ts) ==
  LET deadlines == {ts[i].deadline : i \in 1..Len(ts)}
      latestDeadline == CHOOSE d \in deadlines : \A e \in deadlines : e <= d
      walked == IF ts = <<>> THEN {}
                ELSE {d \in today..latestDeadline :
                        /\ (d < latestDeadline \/ nowMin = 0)
                        /\ getDay(d) \in settings.workDays}
      added == {d \in {AdjustedDeadline(ts[i]) : i \in 1..Len(ts)} :
                  getDay(d) \in settings.workDays}
  IN SortedSeqOf(walked \cup added)

DaysForTask(task, availableDays) ==
  SelectSeq(availableDays, LAMBDA d : d <= AdjustedDeadline(task))

\* studyPlans and dailyRemainingHours as they start
FreshState(availableDays) ==
  [plans |-> AsSeq([i \in 1..Len(availableDays) |-> NewPlan(availableDays[i])]),
   rem |-> [d \in {availableDays[i] : i \in 1..Len(availableDays)} |->
              settings.dailyAvailableHours]]

\* a variant that leaves dailyRemainingHours as it was
PushSessionUncharged(st, date, taskId, hours) ==
  LET i == PlanIndex(st.plans, date)
      p == st.plans[i]
      n == Cardinality({k \in 1..Len(p.plannedTasks) :
                          p.plannedTasks[k].taskId = taskId}) + 1
  IN [plans |-> [st.plans EXCEPT ![i] =
                   [p EXCEPT !.plannedTasks =
                               Append(@, NewSession(taskId, hours, n, Empty, Empty)),
                             !.totalStudyHours = RoundToMinute(@ + hours)]],
      rem |-> st.rem]

\* dayPlan.plannedTasks.push({...}) with the bookkeeping that follows it
PushSession(st, date, taskId, hours) ==
  LET i == PlanIndex(st.plans, date)
      p == st.plans[i]
      n == Cardinality({k \in 1..Len(p.plannedTasks) :
                          p.plannedTasks[k].taskId = taskId}) + 1
  IN [plans |-> [st.plans EXCEPT ![i] =
                   [p EXCEPT !.plannedTasks =
                               Append(@, NewSession(taskId, hours, n, Empty, Empty)),
                             !.totalStudyHours = RoundToMinute(@ + hours)]],
      rem |-> [st.rem EXCEPT ![date] = RoundToMinute(@ - hours)]]

RECURSIVE OptimizeLoop(_, _, _, _)
OptimizeLoop(i, numSessions, remainingHours, acc) ==
  IF i >= numSessions \/ remainingHours <= 0
    THEN [sessions |-> acc, remainingHours |-> remainingHours]
  ELSE LET sessionLength ==
             Min2(Min2(remainingHours \div (numSessions - i), MaxSessionLength),
                  remainingHours)
       IN IF sessionLength >= MinSessionLength
            THEN OptimizeLoop(i + 1, numSessions, remainingHours - sessionLength,
                              Append(acc, sessionLength))
          ELSE OptimizeLoop(i + 1, numSessions, remainingHours, acc)

optimizeSessionDistribution(totalHours, nDays) ==
  LET maxSessionsWithMinLength == totalHours \div MinSessionLength
      n0 == Min2(nDays, maxSessionsWithMinLength)
      numSessions == IF n0 = 0 THEN nDays ELSE n0
      r == OptimizeLoop(0, numSessions, totalHours, <<>>)
  IN IF r.remainingHours > 0 /\ r.sessions # <<>>
       THEN [r.sessions EXCEPT ![1] = @ + r.remainingHours]
     ELSE r.sessions

RECURSIVE RedistRoundLoop(_, _, _, _, _, _)
\* one round: the optimal sessions onto the days that still have capacity
RedistRoundLoop(st, taskId, optimalSessions, days, i, distributed) ==
  IF i > Len(optimalSessions) \/ i > Len(days)
    THEN [st |-> st, distributed |-> distributed]
  ELSE LET date == days[i]
           sessionLength == Min2(optimalSessions[i], st.rem[date])
       IN IF sessionLength >= MinSessionLength
            THEN LET rounded == RoundToMinute(sessionLength)
                 IN RedistRoundLoop(PushSession(st, date, taskId, rounded), taskId,
                                    optimalSessions, days, i + 1,
                                    RoundToMinute(distributed + rounded))
          ELSE RedistRoundLoop(st, taskId, optimalSessions, days, i + 1, distributed)

RECURSIVE RedistRounds(_, _, _, _, _)

\* after a round r: stop if it placed nothing, else go on with what is left
AfterRound(taskId, remaining, daysForTask, round, r) ==
  IF r.distributed = 0 THEN [st |-> r.st, remaining |-> remaining]
  ELSE RedistRounds(r.st, taskId, remaining - r.distributed, daysForTask, round + 1)

\* one round over the days that still have capacity
RedistRound(st, taskId, remaining, daysForTask, round, availableDaysForRedistribution) ==
  IF availableDaysForRedistribution = <<>> THEN [st |-> st, remaining |-> remaining]
  ELSE AfterRound(taskId, remaining, daysForTask, round,
         RedistRoundLoop(st, taskId,
           optimizeSessionDistribution(remaining, Len(availableDaysForRedistribution)),
           availableDaysForRedistribution, 1, 0))

RedistRounds(st, taskId, remaining, daysForTask, round) ==
  IF remaining <= 0 \/ round >= maxRedistributionRounds
    THEN [st |-> st, remaining |-> remaining]
  ELSE RedistRound(st, taskId, remaining, daysForTask, round,
                   SelectSeq(daysForTask, LAMBDA d : st.rem[d] > 0))

redistributeUnscheduledHours(st, task, unscheduledHours, daysForTask) ==
  RedistRounds(st, task.id, unscheduledHours, daysForTask, 0)

RECURSIVE AssignLoop(_, _, _, _, _, _)
\* the first placement of a task's sessions, one per day in order
AssignLoop(st, taskId, sessionLengths, days, i, unscheduled) ==
  IF i > Len(sessionLengths) \/ i > Len(days)
    THEN [st |-> st, unscheduled |-> unscheduled]
  ELSE LET thisSessionLength == Min2(sessionLengths[i], st.rem[days[i]])
       IN IF thisSessionLength > 0
            THEN AssignLoop(PushSession(st, days[i], taskId,
                                        RoundToMinute(thisSessionLength)),
                            taskId, sessionLengths, days, i + 1, unscheduled)
          ELSE AssignLoop(st, taskId, sessionLengths, days, i + 1,
                          unscheduled + sessionLengths[i])

\* what the first placement a left unscheduled goes through the rounds
AfterAssign(task, days, a) ==
  IF a.unscheduled > 0
    THEN redistributeUnscheduledHours(a.st, task, a.unscheduled, days).st
  ELSE a.st

distributeOnDays(st, task, days) ==
  IF days = <<>> THEN st
  ELSE AfterAssign(task, days,
         AssignLoop(st, task.id,
                    optimizeSessionDistribution(task.estimatedHours, Len(days)),
                    days, 1, 0))

distributeTask(st, task, availableDays) ==
  distributeOnDays(st, task, DaysForTask(task, availableDays))

RECURSIVE DistributeAll(_, _, _, _)
DistributeAll(st, ts, i, availableDays) ==
  IF i > Len(ts) THEN st
  ELSE DistributeAll(distributeTask(st, ts[i], availableDays), ts, i + 1, availableDays)

----------------------------------------------------------------------------
(* Plan Generator: combination, time slots, the two strategies *)

RECURSIVE FirstAppearance(_, _)
\* Object.entries(sessionsByTask): the task ids in order of first appearance
FirstAppearance(sessions, seen) ==
  IF sessions = <<>> THEN <<>>
  ELSE IF Head(sessions).taskId \in seen THEN FirstAppearance(Tail(sessions), seen)
  ELSE <<Head(sessions).taskId>>
         \o FirstAppearance(Tail(sessions), seen \cup {Head(sessions).taskId})

\* several sessions of one task on one day become one
MergedSession(sessions) ==
  LET sorted == StableSort(sessions, LAMBDA a, b : TimeStrLess(a.startTime, b.startTime))
  IN [sorted[1] EXCEPT !.endTime = sorted[Len(sorted)].endTime,
                       !.allocatedHours = SumHours(sorted),
                       !.sessionNumber = 1]

CombineGroup(sessions) ==
  IF Len(sessions) > 1 THEN <<MergedSession(sessions)>> ELSE sessions

\* a pass that groups the skipped sessions too and still appends them
CombinePlanGroupingSkipped(plan) ==
  LET ids == FirstAppearance(plan.plannedTasks, {})
      combinedSessions ==
        Flatten(AsSeq([k \in 1..Len(ids) |->
                   CombineGroup(SelectSeq(plan.plannedTasks,
                                          LAMBDA s : s.taskId = ids[k]))]))
      skippedSessions == SelectSeq(plan.plannedTasks, LAMBDA s : s.status = "skipped")
      plannedTasks == combinedSessions \o skippedSessions
  IN [plan EXCEPT !.plannedTasks = plannedTasks,
                  !.totalStudyHours = calculateTotalStudyHours(plannedTasks)]

CombinePlan(plan) ==
  LET active == SelectSeq(plan.plannedTasks, LAMBDA s : s.status # "skipped")
      ids == FirstAppearance(active, {})
      combinedSessions ==
        Flatten(AsSeq([k \in 1..Len(ids) |->
                   CombineGroup(SelectSeq(active, LAMBDA s : s.taskId = ids[k]))]))
      skippedSessions == SelectSeq(plan.plannedTasks, LAMBDA s : s.status = "skipped")
      plannedTasks == combinedSessions \o skippedSessions
  IN [plan EXCEPT !.plannedTasks = plannedTasks,
                  !.totalStudyHours = calculateTotalStudyHours(plannedTasks)]

combineSessionsOnSameDay(plans) == AsSeq([i \in 1..Len(plans) |-> CombinePlan(plans[i])])

\* taskScheduledHours: the hours of a task's non-skipped sessions
ScheduledHours(plans, taskId) ==
  SumHours(SelectSeq(AllSessions(plans),
                     LAMBDA s : s.status # "skipped" /\ s.taskId = taskId))

\* the comparator of plan.plannedTasks.sort before time slots are assigned
SessionLess(ts, a, b) ==
  LET ia == TaskIndex(ts, a.taskId)
      ib == TaskIndex(ts, b.taskId)
  IN IF ia = 0 \/ ib = 0 THEN FALSE ELSE TaskLess(ts[ia], ts[ib])

CommitmentsForDay(commitments, date) ==
  SelectSeq(commitments, LAMBDA c : AppliesToDate(c, date))

RECURSIVE AssignSlots(_, _, _, _, _)

\* session i takes the slot found for it, or is left without times
AssignSlot(sessions, i, assignedSessions, commitmentsForDay, date, slot) ==
  AssignSlots([sessions EXCEPT ![i] = [@ EXCEPT !.startTime = slot.start,
                                                !.endTime = slot.end]],
              i + 1,
              IF slot.found
                THEN Append(assignedSessions,
                            [sessions[i] EXCEPT !.startTime = slot.start,
                                                !.endTime = slot.end])
              ELSE assignedSessions,
              commitmentsForDay, date)

AssignSlots(sessions, i, assignedSessions, commitmentsForDay, date) ==
  IF i > Len(sessions) THEN sessions
  ELSE AssignSlot(sessions, i, assignedSessions, commitmentsForDay, date,
         findNextAvailableTimeSlot(sessions[i].allocatedHours, assignedSessions,
           commitmentsForDay, WindowStart, WindowEnd,
           settings.bufferTimeBetweenSessions, date))

AssignTimeSlots(plans, ts, commitments) ==
  AsSeq([i \in 1..Len(plans) |->
     [plans[i] EXCEPT !.plannedTasks =
        AssignSlots(StableSort(@, LAMBDA a, b : SessionLess(ts, a, b)), 1, <<>>,
                    CommitmentsForDay(commitments, plans[i].date), plans[i].date)]])

\* the sessions generateNewStudyPlan collects as missedSessionsToRedistribute
MissedToRedistribute(ts, existingStudyPlans) ==
  Flatten(AsSeq([i \in 1..Len(existingStudyPlans) |->
    SelectSeq(existingStudyPlans[i].plannedTasks,
              LAMBDA s : /\ checkSessionStatus(s, existingStudyPlans[i].date) = "missed"
                         /\ TaskIndex(ts, s.taskId) # 0
                         /\ ts[TaskIndex(ts, s.taskId)].status = "pending")]))

RECURSIVE GlobalPass(_, _, _, _, _)
\* tasks short of their estimate are retried, with the shortfall as it was
\* before the pass
GlobalPass(st, short, i, before, availableDays) ==
  IF i > Len(short) THEN st
  ELSE GlobalPass(
         IF short[i].estimatedHours - ScheduledHours(before, short[i].id) <= 0 THEN st
         ELSE redistributeUnscheduledHours(st, short[i],
                short[i].estimatedHours - ScheduledHours(before, short[i].id),
                DaysForTask(short[i], availableDays)).st,
         short, i + 1, before, availableDays)

RECURSIVE MissedPass(_, _, _, _, _)
\* missedSessionHoursByTask[task.id] goes through the rounds once more
MissedPass(st, withMissed, i, missed, availableDays) ==
  IF i > Len(withMissed) THEN st
  ELSE MissedPass(
         IF SumHours(SelectSeq(missed, LAMBDA s : s.taskId = withMissed[i].id)) <= 0
           THEN st
         ELSE redistributeUnscheduledHours(st, withMissed[i],
                SumHours(SelectSeq(missed, LAMBDA s : s.taskId = withMissed[i].id)),
                DaysForTask(withMissed[i], availableDays)).st,
         withMissed, i + 1, missed, availableDays)

\* 0.016 hours
OneMinuteThreshold == (16 * TicksPerHour) \div 1000

EvenSuggestions(ts, plans) ==
  LET short == SelectSeq(ts, LAMBDA t :
                 t.estimatedHours - ScheduledHours(plans, t.id) > OneMinuteThreshold)
  IN AsSeq([i \in 1..Len(short) |->
        [taskTitle |-> short[i].id,
         unscheduledMinutes |->
           RoundMinutes(short[i].estimatedHours - ScheduledHours(plans, short[i].id))]])

\* studyPlans after combineSessionsOnSameDay(studyPlans)
Combined(st) == [st EXCEPT !.plans = combineSessionsOnSameDay(@)]

\* the global redistribution pass over the tasks short of their estimate
GlobalRedistribution(st, tasksWithUnscheduledHours, availableDays) ==
  IF tasksWithUnscheduledHours = <<>> THEN st
  ELSE Combined(GlobalPass(st, StableSort(tasksWithUnscheduledHours, TaskLess), 1,
                           st.plans, availableDays))

\* the tasks of tasksEven among Object.keys(missedSessionHoursByTask)
TasksWithMissedSessions(tasksEven, missed) ==
  LET ids == SelectSeq(FirstAppearance(missed, {}),
                       LAMBDA id : TaskIndex(tasksEven, id) # 0)
  IN StableSort(AsSeq([k \in 1..Len(ids) |-> tasksEven[TaskIndex(tasksEven, ids[k])]]),
                TaskLess)

\* "REDISTRIBUTE MISSED SESSIONS"
MissedRedistribution(st, tasksEven, missed, availableDays) ==
  IF missed = <<>> THEN st.plans
  ELSE combineSessionsOnSameDay(
         MissedPass(st, TasksWithMissedSessions(tasksEven, missed), 1, missed,
                    availableDays).plans)

\* from the suggestions on: st is the state after the global pass
EvenFinish(st, tasksEven, missed, commitments, availableDays) ==
  [plans |-> MissedRedistribution(
               [st EXCEPT !.plans = AssignTimeSlots(@, tasksEven, commitments)],
               tasksEven, missed, availableDays),
   suggestions |-> EvenSuggestions(tasksEven, st.plans)]

\* from the first combination on: st is the state after the per-task loop
EvenAfterTasks(st, tasksEven, missed, commitments, availableDays) ==
  EvenFinish(
    GlobalRedistribution(st,
      SelectSeq(tasksEven, LAMBDA t :
        t.estimatedHours - ScheduledHours(st.plans, t.id) > 0),
      availableDays),
    tasksEven, missed, commitments, availableDays)

EvenOnDays(tasksEven, missed, commitments, availableDays) ==
  EvenAfterTasks(
    Combined(DistributeAll(FreshState(availableDays), tasksEven, 1, availableDays)),
    tasksEven, missed, commitments, availableDays)

generateEven(allTasks, commitments, existingStudyPlans) ==
  EvenOnDays(PendingSorted(allTasks),
             MissedToRedistribute(allTasks, existingStudyPlans),
             commitments, AvailableDays(PendingSorted(allTasks)))

RECURSIVE EisenhowerDay(_, _, _, _, _)

\* the session for hoursToSchedule at the slot found, or nothing without one
EisenhowerPlace(st, task, date, hoursToSchedule, slot) ==
  LET pi == PlanIndex(st.plans, date)
      allocated == RoundToMinute(hoursToSchedule)
      sessionNumber ==
        Cardinality({k \in 1..Len(st.plans[pi].plannedTasks) :
                       st.plans[pi].plannedTasks[k].taskId = task.id}) + 1
  IN IF ~slot.found THEN st
     ELSE [plans |-> [st.plans EXCEPT ![pi] =
                        [@ EXCEPT
                           !.plannedTasks =
                             Append(@, NewSession(task.id, allocated, sessionNumber,
                                                  slot.start, slot.end)),
                           !.totalStudyHours = RoundToMinute(@ + allocated)]],
           rem |-> [st.rem EXCEPT ![date] = RoundToMinute(@ - allocated)],
           sched |-> [st.sched EXCEPT ![task.id] = RoundToMinute(@ + allocated)]]

EisenhowerTask(st, task, date, hoursToSchedule, commitmentsForDay) ==
  IF hoursToSchedule <= 0 THEN st
  ELSE EisenhowerPlace(st, task, date, hoursToSchedule,
         findNextAvailableTimeSlot(hoursToSchedule,
           st.plans[PlanIndex(st.plans, date)].plannedTasks, commitmentsForDay,
           WindowStart, WindowEnd, settings.bufferTimeBetweenSessions, date))

\* one day of the greedy pass: the tasks for the day in priority order
\* (availableHours is kept equal to dailyRemainingHours[date], st.rem[date])
EisenhowerDay(st, tasksForDay, i, date, commitmentsForDay) ==
  IF i > Len(tasksForDay) \/ st.rem[date] <= 0 THEN st
  ELSE EisenhowerDay(
         EisenhowerTask(st, tasksForDay[i], date,
           Min2(tasksForDay[i].estimatedHours - st.sched[tasksForDay[i].id],
                st.rem[date]),
           commitmentsForDay),
         tasksForDay, i + 1, date, commitmentsForDay)

RECURSIVE EisenhowerDays(_, _, _, _, _)
EisenhowerDays(st, tasksSorted, availableDays, k, commitments) ==
  IF k > Len(availableDays) THEN st
  ELSE EisenhowerDays(
         EisenhowerDay(st,
           SelectSeq(tasksSorted, LAMBDA t :
             /\ st.sched[t.id] < t.estimatedHours
             /\ availableDays[k] <= AdjustedDeadline(t)),
           1, availableDays[k], CommitmentsForDay(commitments, availableDays[k])),
         tasksSorted, availableDays, k + 1, commitments)

getUnscheduledMinutesForTasks(ts, sched) ==
  LET minSessionLengthHours ==
        IF settings.minSessionLength # 0 THEN Mins(settings.minSessionLength)
        ELSE OneMinuteThreshold
      unscheduled(t) == Max2(0, t.estimatedHours - sched[t.id])
      short == SelectSeq(ts, LAMBDA t :
                 t.status = "pending" /\ unscheduled(t) > minSessionLengthHours)
  IN AsSeq([i \in 1..Len(short) |->
        [taskTitle |-> short[i].id,
         unscheduledMinutes |-> RoundMinutes(unscheduled(short[i]))]])

EisenhowerResult(st, tasksSorted) ==
  [plans |-> st.plans,
   suggestions |-> getUnscheduledMinutesForTasks(tasksSorted, st.sched)]

EisenhowerOnDays(tasksSorted, commitments, availableDays) ==
  EisenhowerResult(
    EisenhowerDays(
      [plans |-> FreshState(availableDays).plans,
       rem |-> FreshState(availableDays).rem,
       sched |-> [id \in {tasksSorted[i].id : i \in 1..Len(tasksSorted)} |-> 0]],
      tasksSorted, availableDays, 1, commitments),
    tasksSorted)

generateEisenhower(allTasks, commitments) ==
  EisenhowerOnDays(PendingSorted(allTasks), commitments,
                   AvailableDays(PendingSorted(allTasks)))

generateNewStudyPlan(allTasks, commitments, existingStudyPlans) ==
  IF settings.studyPlanMode = "even"
    THEN generateEven(allTasks, commitments, existingStudyPlans)
  ELSE generateEisenhower(allTasks, commitments)

----------------------------------------------------------------------------
(* Redistribution: the pre-flight gate *)

\* instants within a day are minutes since midnight, in ticks
T(m) == m * TicksPerMinute

\* modifiedSession?.startTime || commitment.startTime
EffectiveStart(c, date) ==
  IF HasModified(c, date) /\ c.modifiedOccurrences[date].startTime # Empty
    THEN c.modifiedOccurrences[date].startTime ELSE c.startTime

\* modifiedSession?.endTime || commitment.endTime
EffectiveEnd(c, date) ==
  IF HasModified(c, date) /\ c.modifiedOccurrences[date].endTime # Empty
    THEN c.modifiedOccurrences[date].endTime ELSE c.endTime

RECURSIVE SlotsAroundCommitments(_, _, _, _)
\* the loop over sortedCommitments; w is [currentTime, usedMinutes, slots]
SlotsAroundCommitments(cs, date, totalAvailableMinutes, w) ==
  IF cs = <<>> THEN w
  ELSE LET commitmentStart == T(slotMinutes(EffectiveStart(Head(cs), date)))
           commitmentEnd == T(slotMinutes(EffectiveEnd(Head(cs), date)))
           slotDuration == commitmentStart - w.currentTime
           fits == /\ w.currentTime < commitmentStart
                   /\ w.usedMinutes + slotDuration <= totalAvailableMinutes
       IN SlotsAroundCommitments(Tail(cs), date, totalAvailableMinutes,
            [currentTime |-> commitmentEnd,
             usedMinutes |-> IF fits THEN w.usedMinutes + slotDuration
                             ELSE w.usedMinutes,
             slots |-> IF fits
                         THEN Append(w.slots, [start |-> w.currentTime,
                                               end |-> commitmentStart])
                       ELSE w.slots])

\* "Add final slot if there's time remaining"; w is the loop's outcome
WithFinalSlot(w, endTime, dailyHours) ==
  IF /\ w.currentTime < endTime
     /\ Min2(endTime - w.currentTime, dailyHours - w.usedMinutes) > 0
    THEN Append(w.slots,
                [start |-> w.currentTime,
                 end |-> w.currentTime
                           + Min2(endTime - w.currentTime, dailyHours - w.usedMinutes)])
  ELSE w.slots

getDailyAvailableTimeSlots(date, dailyHours, commitments, workDays, startHour, endHour) ==
  IF getDay(date) \notin workDays THEN <<>>
  ELSE WithFinalSlot(
         SlotsAroundCommitments(
           StableSort(SelectSeq(commitments, LAMBDA c :
                        AppliesToDate(c, date) /\ date \notin c.deletedOccurrences),
                      LAMBDA a, b :
                        TimeStrLess(EffectiveStart(a, date), EffectiveStart(b, date))),
           date, dailyHours,
           [currentTime |-> T(startHour * 60), usedMinutes |-> 0, slots |-> <<>>]),
         T(endHour * 60), dailyHours)

RECURSIVE SumSlots(_)
SumSlots(slots) ==
  IF slots = <<>> THEN 0
  ELSE (Head(slots).end - Head(slots).start) + SumSlots(Tail(slots))

\* dayHours of the gate for today + dayOffset
DayHours(dayOffset) ==
  IF getDay(today + dayOffset) \in settings.workDays
    THEN SumSlots(getDailyAvailableTimeSlots(today + dayOffset,
                    settings.dailyAvailableHours, fixedCommitments,
                    settings.workDays, WindowStart, WindowEnd))
  ELSE 0

\* dayHours for dayOffset = 0..7
DayHoursAhead == [dayOffset \in 0..7 |-> DayHours(dayOffset)]

RECURSIVE SumOver(_, _)
SumOver(f, S) ==
  IF S = {} THEN 0
  ELSE LET x == CHOOSE y \in S : TRUE IN f[x] + SumOver(f, S \ {x})

TotalAvailableHours == SumOver(DayHoursAhead, 0..7)

AvailableDayCount == Cardinality({dayOffset \in 0..7 : DayHoursAhead[dayOffset] > 0})

\* the sessions of a plan set that checkSessionStatus classes as missed
MissedSessions(plans) ==
  Flatten(AsSeq([i \in 1..Len(plans) |->
    SelectSeq(plans[i].plannedTasks,
              LAMBDA s : checkSessionStatus(s, plans[i].date) = "missed")]))

\* (new Date(task.deadline) - new Date()) in minutes
MinutesUntilDeadline(task) == (task.deadline - today) * 1440 - nowMin

UrgentTasks(ts) ==
  SelectSeq(ts, LAMBDA t : /\ MinutesUntilDeadline(t) > 0
                           /\ MinutesUntilDeadline(t) <= 1440
                           /\ t.status = "pending")

\* a variant that refuses for urgent tasks only
GateVerdictUrgentOnly(insufficient, noDays, urgent) ==
  [canRedistribute |-> ~urgent,
   issues |-> IF urgent THEN <<"urgent task(s) with deadline within 1 day">> ELSE <<>>,
   suggestions |->
     IF urgent THEN <<"Consider extending deadlines for urgent tasks">> ELSE <<>>]

\* the issues and the suggestions that go with them
GateVerdict(insufficient, noDays, urgent) ==
  [canRedistribute |-> ~insufficient /\ ~noDays /\ ~urgent,
   issues |->
     (IF insufficient THEN <<"Insufficient available time">> ELSE <<>>)
     \o (IF noDays THEN <<"No available work days in the next 7 days">> ELSE <<>>)
     \o (IF urgent THEN <<"urgent task(s) with deadline within 1 day">> ELSE <<>>),
   suggestions |->
     (IF insufficient
        THEN <<"Consider increasing daily available hours in settings",
               "Consider adjusting your study window hours",
               "Consider removing some fixed commitments">>
      ELSE <<>>)
     \o (IF noDays THEN <<"Check your work days settings">> ELSE <<>>)
     \o (IF urgent THEN <<"Consider extending deadlines for urgent tasks">> ELSE <<>>)]

handleRedistributionEdgeCases(plans, ts) ==
  IF MissedSessions(plans) = <<>>
    THEN [canRedistribute |-> FALSE, issues |-> <<"No missed sessions found">>,
          suggestions |-> <<>>]
  ELSE GateVerdict(SumHours(MissedSessions(plans)) > TotalAvailableHours,
                   AvailableDayCount = 0,
                   UrgentTasks(ts) # <<>>)

----------------------------------------------------------------------------
(* Redistribution: moving the missed sessions *)

\* the priority score, scaled by the minutes of a day
Priority(ts, session) ==
  LET i == TaskIndex(ts, session.taskId)
  IN IF i = 0 THEN 0
     ELSE (IF ts[i].importance THEN 1000 * 1440 ELSE 0)
          + (IF MinutesUntilDeadline(ts[i]) < 0 THEN 2000 * 1440
             ELSE Max2(0, 100 * 1440 - MinutesUntilDeadline(ts[i])))

\* missedSessions, sorted by priority (highest first)
MissedByPriority(plans, ts) ==
  LET ofPlan(i) ==
        LET idx == SelectIdx(AsSeq([k \in 1..Len(plans[i].plannedTasks) |-> k]),
                     {k \in 1..Len(plans[i].plannedTasks) :
                        checkSessionStatus(plans[i].plannedTasks[k], plans[i].date)
                          = "missed"}, 1)
        IN AsSeq([n \in 1..Len(idx) |->
              [session |-> plans[i].plannedTasks[idx[n]],
               planDate |-> plans[i].date,
               planIndex |-> i,
               priority |-> Priority(ts, plans[i].plannedTasks[idx[n]])]])
  IN StableSort(Flatten(AsSeq([i \in 1..Len(plans) |-> ofPlan(i)])),
                LAMBDA a, b : a.priority > b.priority)

\* Object.keys(sessionsByTask), then each task's sessions in turn
GroupedByTask(missedSessions) ==
  LET ids == FirstAppearance(AsSeq([k \in 1..Len(missedSessions) |->
                                missedSessions[k].session]), {})
  IN Flatten(AsSeq([k \in 1..Len(ids) |->
       StableSort(SelectSeq(missedSessions, LAMBDA m : m.session.taskId = ids[k]),
                  LAMBDA a, b : a.priority > b.priority)]))

\* all commitments of the weekday or date at their base times, then the
\* non-skipped sessions of the day's plan, sorted by start
getBusyTimeSlots(plans, date) ==
  LET dayCommitments == CommitmentsForDay(fixedCommitments, date)
      commitmentSlots == AsSeq([i \in 1..Len(dayCommitments) |->
                            [start |-> T(slotMinutes(dayCommitments[i].startTime)),
                             end |-> T(slotMinutes(dayCommitments[i].endTime))]])
      pi == PlanIndex(plans, date)
      sessions == IF pi = 0 THEN <<>>
                  ELSE SelectSeq(plans[pi].plannedTasks,
                                 LAMBDA x : x.status # "skipped")
      sessionSlots == AsSeq([i \in 1..Len(sessions) |->
                         [start |-> T(slotMinutes(sessions[i].startTime)),
                          end |-> T(slotMinutes(sessions[i].endTime))]])
  IN StableSort(commitmentSlots \o sessionSlots, LAMBDA a, b : a.start < b.start)

RECURSIVE GapsBetween(_, _, _)
GapsBetween(busySlots, currentTime, availableSlots) ==
  IF busySlots = <<>>
    THEN [currentTime |-> currentTime, availableSlots |-> availableSlots]
  ELSE GapsBetween(Tail(busySlots), Head(busySlots).end,
         IF /\ currentTime < Head(busySlots).start
            /\ Head(busySlots).start - currentTime >= MinSessionLength
           THEN Append(availableSlots, [start |-> currentTime,
                                        end |-> Head(busySlots).start])
         ELSE availableSlots)

\* "Add final slot if there's time remaining"; g is the loop's outcome
WithLastGap(g, studyWindowEnd) ==
  IF /\ g.currentTime < studyWindowEnd
     /\ studyWindowEnd - g.currentTime >= MinSessionLength
    THEN Append(g.availableSlots, [start |-> g.currentTime, end |-> studyWindowEnd])
  ELSE g.availableSlots

findAvailableTimeSlots(plans, date) ==
  WithLastGap(GapsBetween(getBusyTimeSlots(plans, date), T(WindowStart * 60), <<>>),
              T(WindowEnd * 60))

\* the test a slot must pass inside tryMoveSession; existingSessions is
\* getBusyTimeSlots of the date
SlotSuits(session, sessionDuration, date, slot, existingSessions) ==
  /\ slot.end - slot.start >= sessionDuration
  /\ ~\E k \in 1..Len(existingSessions) :
        /\ slot.start - T(settings.bufferTimeBetweenSessions) < existingSessions[k].end
        /\ slot.start + sessionDuration + T(settings.bufferTimeBetweenSessions)
             > existingSessions[k].start
  /\ \/ checkSessionStatus(session, date) = "missed"
     \/ (sessionDuration >= MinSessionLength /\ sessionDuration <= MaxSessionLength)

RECURSIVE tryMoveSessionFrom(_, _, _, _)

\* the first suitable slot of the day, or on to the next day
FirstSuitable(plans, session, sessionDuration, dayOffset, slots) ==
  IF slots # <<>>
    THEN [success |-> TRUE, targetDate |-> today + dayOffset,
          targetTime |-> HHMM(slots[1].start \div TicksPerMinute)]
  ELSE tryMoveSessionFrom(plans, session, sessionDuration, dayOffset + 1)

\* the day's available slots that suit the session
SuitableSlots(session, sessionDuration, date, availableSlots, existingSessions) ==
  SelectSeq(availableSlots,
            LAMBDA sl : SlotSuits(session, sessionDuration, date, sl, existingSessions))

tryMoveSessionFrom(plans, session, sessionDuration, dayOffset) ==
  IF dayOffset > 14
    THEN [success |-> FALSE, targetDate |-> NoDate, targetTime |-> Empty]
  ELSE FirstSuitable(plans, session, sessionDuration, dayOffset,
         IF getDay(today + dayOffset) \in settings.workDays
           THEN SuitableSlots(session, sessionDuration, today + dayOffset,
                              findAvailableTimeSlots(plans, today + dayOffset),
                              getBusyTimeSlots(plans, today + dayOffset))
         ELSE <<>>)

tryMoveSession(plans, session, sessionDuration) ==
  tryMoveSessionFrom(plans, session, sessionDuration, 0)

\* originalPlan.plannedTasks.findIndex(taskId and sessionNumber) and splice
RemoveFirstMatch(plannedTasks, session) ==
  LET hits == {k \in 1..Len(plannedTasks) :
                 /\ plannedTasks[k].taskId = session.taskId
                 /\ plannedTasks[k].sessionNumber = session.sessionNumber}
  IN IF hits = {} THEN plannedTasks
     ELSE LET k == CHOOSE h \in hits : \A g \in hits : h <= g
          IN SubSeq(plannedTasks, 1, k - 1) \o SubSeq(plannedTasks, k + 1, Len(plannedTasks))

\* the clone of the session at its destination
MovedSession(session, planDate, targetTime) ==
  [session EXCEPT
     !.originalTime = session.startTime,
     !.originalDate = planDate,
     !.status = "scheduled",
     !.startTime = targetTime,
     !.endTime = HHMM(slotMinutes(targetTime) + RoundMinutes(session.allocatedHours))]

\* updatedPlans.find(p => p.date === targetDate), created if absent
WithTargetPlan(plans, targetDate) ==
  IF PlanIndex(plans, targetDate) = 0 THEN Append(plans, NewPlan(targetDate))
  ELSE plans

\* the push into the target plan, then the splice from updatedPlans[planIndex]
Moved(plans, m, targetDate, newSession) ==
  AsSeq([i \in 1..Len(plans) |->
     IF i = PlanIndex(plans, targetDate)
       THEN [plans[i] EXCEPT
               !.plannedTasks =
                 IF i = m.planIndex
                   THEN RemoveFirstMatch(Append(@, newSession), m.session)
                 ELSE Append(@, newSession),
               !.totalStudyHours = RoundToMinute(@ + m.session.allocatedHours)]
     ELSE IF i = m.planIndex
       THEN [plans[i] EXCEPT !.plannedTasks = RemoveFirstMatch(@, m.session)]
     ELSE plans[i]])

\* one missed session with the outcome of tryMoveSession: moved into the
\* destination plan and taken out of its source plan, or reported failed;
\* w is [plans, moved, failed]
MoveWith(w, m, moveResult) ==
  IF moveResult.success /\ moveResult.targetTime # Empty
    THEN [plans |-> Moved(WithTargetPlan(w.plans, moveResult.targetDate), m,
                          moveResult.targetDate,
                          MovedSession(m.session, m.planDate, moveResult.targetTime)),
          moved |-> Append(w.moved,
                           MovedSession(m.session, m.planDate, moveResult.targetTime)),
          failed |-> w.failed]
  ELSE [w EXCEPT !.failed = Append(@, m.session)]

MoveOne(w, m) ==
  MoveWith(w, m, tryMoveSession(w.plans, m.session, m.session.allocatedHours))

RECURSIVE MoveAll(_, _)
MoveAll(w, ms) == IF ms = <<>> THEN w ELSE MoveAll(MoveOne(w, Head(ms)), Tail(ms))

----------------------------------------------------------------------------
(* Redistribution: validated combination, cleanup, Conflict Validator *)

CombineGroupWithValidation(sessions) ==
  IF /\ Len(sessions) > 1
     /\ SumHours(sessions) >= MinSessionLength
     /\ SumHours(sessions) <= MaxSessionLength
    THEN <<MergedSession(sessions)>>
  ELSE StableSort(sessions, LAMBDA a, b : TimeStrLess(a.startTime, b.startTime))

CombinePlanWithValidation(plan) ==
  LET active == SelectSeq(plan.plannedTasks, LAMBDA s : s.status # "skipped")
      ids == FirstAppearance(active, {})
      combinedSessions ==
        Flatten(AsSeq([k \in 1..Len(ids) |->
          CombineGroupWithValidation(SelectSeq(active, LAMBDA s : s.taskId = ids[k]))]))
  IN [plan EXCEPT !.plannedTasks = combinedSessions,
                  !.totalStudyHours = SumHours(combinedSessions)]

combineSessionsOnSameDayWithValidation(plans) ==
  AsSeq([i \in 1..Len(plans) |-> CombinePlanWithValidation(plans[i])])

cleanupOrphanedSessions(plans, movedSessions) ==
  LET successfullyMovedSessions ==
        {<<movedSessions[k].taskId, movedSessions[k].sessionNumber,
           movedSessions[k].originalDate>> : k \in 1..Len(movedSessions)}
      isOrphaned(session, date) ==
        /\ HasOriginal(session)
        /\ session.status = "scheduled"
        /\ date = session.originalDate
        /\ <<session.taskId, session.sessionNumber, session.originalDate>>
             \in successfullyMovedSessions
  IN AsSeq([i \in 1..Len(plans) |->
        [plans[i] EXCEPT !.plannedTasks =
           SelectSeq(@, LAMBDA x : ~isOrphaned(x, plans[i].date))]])

\* both sessions carry a start and an end, and the two ranges intersect
SessionsOverlap(a, b) ==
  /\ a.startTime # Empty /\ a.endTime # Empty
  /\ b.startTime # Empty /\ b.endTime # Empty
  /\ slotMinutes(a.startTime) < slotMinutes(b.endTime)
  /\ slotMinutes(a.endTime) > slotMinutes(b.startTime)

PlanHasConflict(plan) ==
  LET sessions == SelectSeq(plan.plannedTasks, LAMBDA s : s.status # "skipped")
      regularSessions ==
        SelectSeq(sessions, LAMBDA s : ~isMissedOrRedistributedSession(s, plan.date))
  IN \/ \E i \in 1..Len(sessions) : \E j \in (i + 1)..Len(sessions) :
          SessionsOverlap(sessions[i], sessions[j])
     \/ SumHours(regularSessions) > settings.dailyAvailableHours
     \/ \E i \in 1..Len(regularSessions) :
          \/ regularSessions[i].allocatedHours < MinSessionLength
          \/ regularSessions[i].allocatedHours > MaxSessionLength

validateStudyPlanConflicts(plans) ==
  \E i \in 1..Len(plans) : PlanHasConflict(plans[i])

\* updatedPlans shares its plan objects with the studyPlans passed in: what
\* the move, the combination and the cleanup do to a plan is done to the
\* caller's plan as well.  `inPlace` is the caller's array after the call;
\* on a conflict it is what `updatedPlans: studyPlans` returns.
MoveOutcome(nPlans, missedSessions, w, updatedPlans, hasConflicts) ==
  IF hasConflicts
    THEN [updatedPlans |-> SubSeq(updatedPlans, 1, nPlans),
          movedSessions |-> <<>>,
          failedSessions |-> AsSeq([k \in 1..Len(missedSessions) |->
                                missedSessions[k].session]),
          hasConflicts |-> TRUE,
          inPlace |-> SubSeq(updatedPlans, 1, nPlans)]
  ELSE [updatedPlans |-> updatedPlans, movedSessions |-> w.moved,
        failedSessions |-> w.failed, hasConflicts |-> FALSE,
        inPlace |-> SubSeq(updatedPlans, 1, nPlans)]

\* from the validation on
ValidatedOutcome(nPlans, missedSessions, w, updatedPlans) ==
  MoveOutcome(nPlans, missedSessions, w, updatedPlans,
              validateStudyPlanConflicts(updatedPlans))

\* from the combination on; w is the outcome of the move loop
AfterMoves(nPlans, missedSessions, w) ==
  ValidatedOutcome(nPlans, missedSessions, w,
    cleanupOrphanedSessions(combineSessionsOnSameDayWithValidation(w.plans), w.moved))

MoveMissed(plans, missedSessions) ==
  AfterMoves(Len(plans), missedSessions,
    MoveAll([plans |-> plans, moved |-> <<>>, failed |-> <<>>],
            GroupedByTask(missedSessions)))

moveMissedSessions(plans, ts) == MoveMissed(plans, MissedByPriority(plans, ts))

\* missed sessions on past dates (status === 'missed' && plan.date < today)
RemainingMissed(plans) ==
  Len(Flatten(AsSeq([i \in 1..Len(plans) |->
        SelectSeq(plans[i].plannedTasks,
                  LAMBDA s : /\ checkSessionStatus(s, plans[i].date) = "missed"
                             /\ plans[i].date < today)])))

\* the answer when the gate refuses
Refusal(plans, edgeCaseCheck) ==
  [updatedPlans |-> plans, movedSessions |-> <<>>, failedSessions |-> <<>>,
   hasConflicts |-> FALSE, inPlace |-> plans, attempted |-> FALSE,
   feedback |-> [success |-> FALSE, totalMissed |-> 0, successfullyMoved |-> 0,
                 failedToMove |-> 0, remainingMissed |-> 0,
                 conflictsDetected |-> TRUE, priorityOrderUsed |-> FALSE,
                 issues |-> edgeCaseCheck.issues,
                 suggestions |-> edgeCaseCheck.suggestions]]

\* the answer built from the result of moveMissedSessions
WithFeedback(result) ==
  [updatedPlans |-> result.updatedPlans,
   movedSessions |-> result.movedSessions,
   failedSessions |-> result.failedSessions,
   hasConflicts |-> result.hasConflicts, inPlace |-> result.inPlace,
   attempted |-> TRUE,
   feedback |-> [success |-> Len(result.movedSessions) > 0,
                 totalMissed |-> Len(MissedSessions(result.inPlace)),
                 successfullyMoved |-> Len(result.movedSessions),
                 failedToMove |-> Len(result.failedSessions),
                 remainingMissed |-> RemainingMissed(result.updatedPlans),
                 conflictsDetected |-> Len(result.failedSessions) > 0
                                       /\ Len(result.movedSessions) = 0,
                 priorityOrderUsed |-> TRUE,
                 issues |-> <<>>, suggestions |-> <<>>]]

AfterGate(plans, ts, edgeCaseCheck) ==
  IF ~edgeCaseCheck.canRedistribute THEN Refusal(plans, edgeCaseCheck)
  ELSE WithFeedback(moveMissedSessions(plans, ts))

redistributeMissedSessionsWithFeedback(plans, ts) ==
  AfterGate(plans, ts, handleRedistributionEdgeCases(plans, ts))

----------------------------------------------------------------------------
(* The App: stored state, handlers *)

\* the last calendar date the clock reaches
MaxDay == 11

\* the date the App is opened on (a Tuesday) and the time of day
StartDays == {9}
NowChoices == {0, 600}

DefaultSettings ==
  [dailyAvailableHours |-> Hrs(6), workDays |-> 1..6, bufferDays |-> 0,
   minSessionLength |-> 15, bufferTimeBetweenSessions |-> 0,
   studyWindowStartHour |-> 6, studyWindowEndHour |-> 23,
   studyPlanMode |-> "even"]

\* settings as saved through the settings form
SettingsChoices ==
  { DefaultSettings,
    [DefaultSettings EXCEPT !.studyPlanMode = "eisenhower"],
    [DefaultSettings EXCEPT !.dailyAvailableHours = Hrs(2), !.workDays = {2, 4},
                            !.bufferTimeBetweenSessions = 15,
                            !.studyWindowStartHour = 9, !.studyWindowEndHour = 12],
    [DefaultSettings EXCEPT !.dailyAvailableHours = Hrs(3), !.bufferDays = 1,
                            !.minSessionLength = 30,
                            !.studyPlanMode = "eisenhower"] }

Commitment(id, start, end, days) ==
  [id |-> id, startTime |-> start, endTime |-> end, recurring |-> TRUE,
   daysOfWeek |-> days, specificDates |-> {}, deletedOccurrences |-> {},
   modifiedOccurrences |-> <<>>]

\* the stored commitments: none; a daily class, one occurrence of which was
\* moved to a later hour and one deleted; a block over the whole of every
\* day; a one-time block over the whole of the first day; a daily lecture in
\* the morning with a daily dinner in the evening; a daily shift that leaves
\* an hour free at either end of the day
CommitmentChoices ==
  { <<>>,
    << [Commitment("class", <<6, 0>>, <<7, 0>>, 0..6) EXCEPT
          !.modifiedOccurrences = (9 :> [startTime |-> <<8, 0>>, endTime |-> <<9, 0>>]),
          !.deletedOccurrences = {10}] >>,
    << Commitment("work", <<6, 0>>, <<23, 0>>, 0..6) >>,
    << [Commitment("exam", <<6, 0>>, <<23, 0>>, {}) EXCEPT
          !.recurring = FALSE, !.specificDates = {9}] >>,
    << Commitment("lecture", <<9, 30>>, <<11, 30>>, 0..6),
       Commitment("dinner", <<19, 0>>, <<20, 0>>, 0..6) >>,
    << Commitment("shift", <<7, 0>>, <<22, 0>>, 0..6) >> }

Task(id, deadline, importance, estimatedHours) ==
  [id |-> id, deadline |-> deadline, importance |-> importance,
   estimatedHours |-> estimatedHours, status |-> "pending"]

TaskChoices ==
  { << Task("A", 12, TRUE, Hrs(2)) >>,
    << Task("A", 9, TRUE, Hrs(6)), Task("B", 11, FALSE, Mins(50)) >>,
    << Task("B", 13, FALSE, Hrs(3)), Task("A", 12, TRUE, Hrs(2)) >>,
    << Task("A", 11, FALSE, Mins(350)), Task("B", 11, FALSE, Hrs(1)),
       [Task("C", 11, TRUE, Hrs(1)) EXCEPT !.status = "completed"] >>,
    << Task("A", 11, TRUE, Mins(350)), Task("B", 11, FALSE, Mins(30)) >> }

Stored(taskId, number, start, end, hours, status, done) ==
  [NewSession(taskId, hours, number, start, end) EXCEPT !.status = status,
                                                        !.done = done]

StoredPlan(date, sessions) ==
  [date |-> date, plannedTasks |-> sessions, totalStudyHours |-> 0,
   availableHours |-> Hrs(6)]

\* the stored plan sets: none; yesterday's session missed while today holds
\* sessions of two tasks back to back; past days with missed, skipped and
\* done sessions (the statuses as the test data stores them)
PlanChoices ==
  { <<>>,
    << StoredPlan(8, << Stored("A", 2, <<9, 0>>, <<10, 0>>, Hrs(1), "scheduled", FALSE) >>),
       StoredPlan(9, << Stored("A", 1, <<9, 0>>, <<10, 0>>, Hrs(1), "scheduled", FALSE),
                        Stored("B", 1, <<10, 0>>, <<11, 0>>, Hrs(1), "scheduled", FALSE) >>) >>,
    << StoredPlan(7, << Stored("B", 1, <<10, 0>>, <<13, 0>>, Hrs(3), "missed", FALSE),
                        Stored("A", 2, <<15, 0>>, <<16, 0>>, Hrs(1), "completed", TRUE) >>),
       StoredPlan(8, << Stored("A", 1, <<9, 0>>, <<10, 30>>, Mins(90), "missed", FALSE),
                        Stored("A", 2, <<14, 0>>, <<15, 0>>, Hrs(1), "skipped", FALSE) >>) >> }

\* no engine call yet, or none since the date changed
NoCall ==
  [op |-> "none", inPlans |-> <<>>, outPlans |-> <<>>, movedSessions |-> <<>>,
   failedSessions |-> <<>>, hasConflicts |-> FALSE, attempted |-> FALSE,
   success |-> FALSE, issues |-> <<>>, suggestions |-> <<>>]

Init ==
  /\ settings \in SettingsChoices
  /\ fixedCommitments \in CommitmentChoices
  /\ tasks \in TaskChoices
  /\ studyPlans \in PlanChoices
  /\ today \in StartDays
  /\ nowMin \in NowChoices
  /\ last = NoCall
  /\ timers = <<>>

\* prevPlan.plannedTasks.find(taskId and sessionNumber), as an index (0: none)
PrevSessionIndex(plannedTasks, session) ==
  LET hits == {k \in 1..Len(plannedTasks) :
                 /\ plannedTasks[k].taskId = session.taskId
                 /\ plannedTasks[k].sessionNumber = session.sessionNumber}
  IN IF hits = {} THEN 0 ELSE CHOOSE h \in hits : \A g \in hits : h <= g

\* "Preserve session status from previous plan"
PreserveSession(session, prevPlan) ==
  LET k == PrevSessionIndex(prevPlan.plannedTasks, session)
      prevSession == prevPlan.plannedTasks[k]
  IN IF k = 0 THEN session
     ELSE IF prevSession.done
       THEN [session EXCEPT !.done = TRUE, !.status = prevSession.status]
     ELSE IF prevSession.status = "skipped"
       THEN [session EXCEPT !.status = "skipped"]
     ELSE IF HasOriginal(prevSession)
       THEN [session EXCEPT !.originalTime = prevSession.originalTime,
                            !.originalDate = prevSession.originalDate,
                            !.isManualOverride = prevSession.isManualOverride]
     ELSE session

PreserveStatus(newPlans, prevPlans) ==
  AsSeq([i \in 1..Len(newPlans) |->
     IF PlanIndex(prevPlans, newPlans[i].date) = 0 THEN newPlans[i]
     ELSE [newPlans[i] EXCEPT !.plannedTasks =
             AsSeq([k \in 1..Len(@) |->
                PreserveSession(@[k], prevPlans[PlanIndex(prevPlans, newPlans[i].date)])])]])

\* session.originalTime && session.originalDate && session.isManualOverride
hasManualReschedules ==
  \E i \in 1..Len(studyPlans) : \E k \in 1..Len(studyPlans[i].plannedTasks) :
    HasOriginal(studyPlans[i].plannedTasks[k])
      /\ studyPlans[i].plannedTasks[k].isManualOverride

\* setStudyPlans(newPlans) with the statuses of the previous plans preserved
SetGenerated(result) ==
  /\ studyPlans' = PreserveStatus(result.plans, studyPlans)
  /\ last' = [NoCall EXCEPT !.op = "generate", !.inPlans = studyPlans,
                            !.outPlans = result.plans,
                            !.suggestions = result.suggestions]

handleGenerateStudyPlan ==
  /\ Len(tasks) > 0
  /\ ~hasManualReschedules
  /\ SetGenerated(generateNewStudyPlan(tasks, fixedCommitments, studyPlans))
  /\ UNCHANGED <<tasks, settings, fixedCommitments, today, nowMin, timers>>

\* every non-skipped session on a date redistribution may target carries both
\* times (the busy-slot list of a day holding an untimed session is built from
\* Invalid Dates, and the order its sort leaves is implementation-defined)
TargetDaysTimed(plans) ==
  \A i \in 1..Len(plans) : \A k \in 1..Len(plans[i].plannedTasks) :
    (plans[i].date >= today /\ plans[i].plannedTasks[k].status # "skipped")
      => /\ plans[i].plannedTasks[k].startTime # Empty
         /\ plans[i].plannedTasks[k].endTime # Empty

\* setStudyPlans(updatedPlans) on success; the plans the call changed in
\* place are the App's plans either way
SetRedistributed(r) ==
  /\ studyPlans' = IF r.feedback.success THEN r.updatedPlans ELSE r.inPlace
  /\ last' = [op |-> "redistribute", inPlans |-> studyPlans,
              outPlans |-> r.updatedPlans,
              movedSessions |-> r.movedSessions,
              failedSessions |-> r.failedSessions,
              hasConflicts |-> r.hasConflicts, attempted |-> r.attempted,
              success |-> r.feedback.success, issues |-> r.feedback.issues,
              suggestions |-> r.feedback.suggestions]

handleRedistributeMissedSessions ==
  /\ Len(tasks) > 0
  /\ handleRedistributionEdgeCases(studyPlans, tasks).canRedistribute
       => TargetDaysTimed(studyPlans)
  /\ SetRedistributed(redistributeMissedSessionsWithFeedback(studyPlans, tasks))
  /\ UNCHANGED <<tasks, settings, fixedCommitments, today, nowMin, timers>>

\* midnight passes
NextDay ==
  /\ today < MaxDay
  /\ today' = today + 1
  /\ last' = NoCall
  /\ UNCHANGED <<tasks, settings, fixedCommitments, studyPlans, nowMin, timers>>

Next ==
  \/ handleGenerateStudyPlan
  \/ handleRedistributeMissedSessions
  \/ NextDay

Spec == Init /\ [][Next]_vars

----------------------------------------------------------------------------
(* Commitments: the conflict check and the App's add and edit handlers *)

\* the most commitments the App holds
MaxCommitments == 3

\* a variant that takes touching time ranges for overlapping ones
ConflictWithTouching(newCommitment, existing) ==
  LET hasTimeOverlap ==
        ~(\/ slotMinutes(newCommitment.endTime) < slotMinutes(existing.startTime)
          \/ slotMinutes(newCommitment.startTime) > slotMinutes(existing.endTime))
      oneOff == IF newCommitment.recurring THEN existing ELSE newCommitment
      weekly == IF newCommitment.recurring THEN newCommitment ELSE existing
      overlappingDates == {d \in oneOff.specificDates : getDay(d) \in weekly.daysOfWeek}
  IN IF newCommitment.recurring /\ existing.recurring
       THEN [hasConflict |-> newCommitment.daysOfWeek \cap existing.daysOfWeek # {}
                               /\ hasTimeOverlap,
             conflictType |-> "strict", conflictingDates |-> {}]
     ELSE IF ~newCommitment.recurring /\ ~existing.recurring
       THEN [hasConflict |-> newCommitment.specificDates \cap existing.specificDates # {}
                               /\ hasTimeOverlap,
             conflictType |-> "strict",
             conflictingDates |-> newCommitment.specificDates \cap existing.specificDates]
     ELSE [hasConflict |-> overlappingDates # {} /\ hasTimeOverlap,
           conflictType |-> "override", conflictingDates |-> overlappingDates]

\* the body of checkCommitmentConflicts' loop: the new commitment against one
\* existing commitment
ConflictWith(newCommitment, existing) ==
  LET hasTimeOverlap ==
        ~(\/ slotMinutes(newCommitment.endTime) <= slotMinutes(existing.startTime)
          \/ slotMinutes(newCommitment.startTime) >= slotMinutes(existing.endTime))
      oneOff == IF newCommitment.recurring THEN existing ELSE newCommitment
      weekly == IF newCommitment.recurring THEN newCommitment ELSE existing
      overlappingDates == {d \in oneOff.specificDates : getDay(d) \in weekly.daysOfWeek}
  IN IF newCommitment.recurring /\ existing.recurring
       THEN [hasConflict |-> newCommitment.daysOfWeek \cap existing.daysOfWeek # {}
                               /\ hasTimeOverlap,
             conflictType |-> "strict", conflictingDates |-> {}]
     ELSE IF ~newCommitment.recurring /\ ~existing.recurring
       THEN [hasConflict |-> newCommitment.specificDates \cap existing.specificDates # {}
                               /\ hasTimeOverlap,
             conflictType |-> "strict",
             conflictingDates |-> newCommitment.specificDates \cap existing.specificDates]
     ELSE [hasConflict |-> overlappingDates # {} /\ hasTimeOverlap,
           conflictType |-> "override", conflictingDates |-> overlappingDates]

\* the first existing commitment, other than the one being edited, that the
\* new one conflicts with (conflictingCommitment is its id, "" for none)
checkCommitmentConflicts(newCommitment, existingCommitments, excludeCommitmentId) ==
  LET hits == {k \in 1..Len(existingCommitments) :
                 /\ existingCommitments[k].id # excludeCommitmentId
                 /\ ConflictWith(newCommitment, existingCommitments[k]).hasConflict}
      first == CHOOSE k \in hits : \A j \in hits : k <= j
  IN IF hits = {}
       THEN [hasConflict |-> FALSE, conflictingCommitment |-> "",
             conflictType |-> "none", conflictingDates |-> {}]
     ELSE [hasConflict |-> TRUE,
           conflictingCommitment |-> existingCommitments[first].id,
           conflictType |-> ConflictWith(newCommitment, existingCommitments[first]).conflictType,
           conflictingDates |->
             ConflictWith(newCommitment, existingCommitments[first]).conflictingDates]

\* the commitments entered in the form: a one-off trip over the middle of the
\* first day, a gym hour twice a week, a one-off visit early on two days
CommitmentInputs ==
  { [Commitment("trip", <<11, 0>>, <<19, 30>>, {}) EXCEPT
       !.recurring = FALSE, !.specificDates = {9}],
    Commitment("gym", <<7, 0>>, <<8, 0>>, {2, 4}),
    [Commitment("visit", <<6, 30>>, <<7, 30>>, {}) EXCEPT
       !.recurring = FALSE, !.specificDates = {9, 10}] }

\* the override of both handlers: an override conflict of a one-off
\* commitment c adds the conflicting dates to the deletedOccurrences of the
\* conflicting commitment, one of a recurring commitment c to its own; then
\* setFixedCommitments, and the plan regenerated when there are tasks
SetCommitments(updatedCommitments, c, conflicts) ==
  LET target == IF c.recurring THEN c.id ELSE conflicts.conflictingCommitment
      resolved ==
        IF conflicts.hasConflict /\ conflicts.conflictType = "override"
          THEN AsSeq([k \in 1..Len(updatedCommitments) |->
                 IF updatedCommitments[k].id = target
                   THEN [updatedCommitments[k] EXCEPT
                           !.deletedOccurrences = @ \cup conflicts.conflictingDates]
                 ELSE updatedCommitments[k]])
        ELSE updatedCommitments
      result == generateNewStudyPlan(tasks, resolved, studyPlans)
  IN /\ fixedCommitments' = resolved
     /\ studyPlans' = IF Len(tasks) > 0 THEN PreserveStatus(result.plans, studyPlans)
                      ELSE studyPlans
     /\ last' = ("before" :> fixedCommitments) @@ ("commitment" :> c)
                @@ ("conflicts" :> conflicts)
                @@ [NoCall EXCEPT !.op = "commitment", !.inPlans = studyPlans,
                                  !.outPlans = IF Len(tasks) > 0 THEN result.plans
                                               ELSE <<>>]
     /\ UNCHANGED <<tasks, settings, today, nowMin, timers>>

\* newCommitment's id is Date.now().toString(): no stored commitment has it
handleAddFixedCommitment(commitmentData) ==
  /\ Len(fixedCommitments) < MaxCommitments
  /\ \A k \in 1..Len(fixedCommitments) : fixedCommitments[k].id # commitmentData.id
  /\ SetCommitments(Append(fixedCommitments, commitmentData), commitmentData,
                    checkCommitmentConflicts(commitmentData, fixedCommitments, ""))

\* { ...commitment, ...updates } for the commitment with the id
handleUpdateFixedCommitment(commitmentId, updates) ==
  \E i \in 1..Len(fixedCommitments) :
    /\ fixedCommitments[i].id = commitmentId
    /\ SetCommitments(
         [fixedCommitments EXCEPT ![i] =
            [f \in DOMAIN @ |-> IF f \in DOMAIN updates THEN updates[f] ELSE @[f]]],
         [f \in DOMAIN fixedCommitments[i] |->
            IF f \in DOMAIN updates THEN updates[f] ELSE fixedCommitments[i][f]],
         checkCommitmentConflicts(
           [f \in DOMAIN fixedCommitments[i] |->
              IF f \in DOMAIN updates THEN updates[f] ELSE fixedCommitments[i][f]],
           fixedCommitments, commitmentId))

\* the App opened on the commitments tab with one task and the default
\* settings, before any plan is stored
CommitmentInit ==
  /\ Init
  /\ settings = DefaultSettings
  /\ Len(tasks) = 1
  /\ studyPlans = <<>>
  /\ nowMin = 0

CommitmentNext ==
  \/ \E c \in CommitmentInputs : handleAddFixedCommitment(c)
  \/ \E i \in 1..Len(fixedCommitments) :
       handleUpdateFixedCommitment(fixedCommitments[i].id,
         [startTime |-> <<6, 30>>, endTime |-> <<7, 30>>])

CommitmentSpec == CommitmentInit /\ [][CommitmentNext]_vars

----------------------------------------------------------------------------
(* The combination passes applied to plan sets that are not combined yet *)

\* the plan set before a combination pass.  A day holds up to three different
\* sessions, in any order, out of: timed sessions of two tasks, one of them
\* done, a long session without times as redistributeUnscheduledHours pushes
\* it, and a skipped one
UncombinedPlans ==
  LET SessionPool ==
        { Stored("A", 1, <<9, 0>>, <<10, 0>>, Hrs(1), "scheduled", FALSE),
          Stored("A", 2, <<8, 0>>, <<8, 30>>, Mins(30), "completed", TRUE),
          Stored("A", 3, Empty, Empty, Hrs(3), "scheduled", FALSE),
          Stored("B", 1, <<11, 0>>, <<12, 0>>, Hrs(1), "scheduled", FALSE),
          Stored("B", 2, <<10, 0>>, <<10, 45>>, Mins(45), "scheduled", FALSE),
          Stored("A", 4, <<14, 0>>, <<15, 0>>, Hrs(1), "skipped", FALSE) }
      DaySessions ==
        {q \in UNION {[1..n -> SessionPool] : n \in 1..3} :
           \A i, j \in 1..Len(q) : i # j => q[i] # q[j]}
  IN {<<StoredPlan(9, AsSeq(q))>> : q \in DaySessions}

\* combineSessionsOnSameDay(studyPlans), the plans changed in place
CombineStoredPlans ==
  /\ studyPlans' = combineSessionsOnSameDay(studyPlans)
  /\ last' = [NoCall EXCEPT !.op = "combine", !.inPlans = studyPlans,
                            !.outPlans = combineSessionsOnSameDay(studyPlans)]
  /\ UNCHANGED <<tasks, settings, fixedCommitments, today, nowMin, timers>>

\* combineSessionsOnSameDayWithValidation(studyPlans, settings)
CombineStoredPlansWithValidation ==
  /\ studyPlans' = combineSessionsOnSameDayWithValidation(studyPlans)
  /\ last' = [NoCall EXCEPT !.op = "combineWithValidation", !.inPlans = studyPlans,
                !.outPlans = combineSessionsOnSameDayWithValidation(studyPlans)]
  /\ UNCHANGED <<tasks, settings, fixedCommitments, today, nowMin, timers>>

CombineInit ==
  /\ settings \in SettingsChoices
  /\ fixedCommitments = <<>>
  /\ tasks = << Task("A", 12, TRUE, Hrs(6)), Task("B", 11, FALSE, Hrs(2)) >>
  /\ studyPlans \in UncombinedPlans
  /\ today = 9
  /\ nowMin = 0
  /\ last = NoCall
  /\ timers = <<>>

CombineNext == CombineStoredPlans \/ CombineStoredPlansWithValidation

CombineSpec == CombineInit /\ [][CombineNext]_vars

----------------------------------------------------------------------------
(* Sessions skipped, tasks deleted, and the deferred completion checks *)

\* the deferred checks that may be waiting at one time
MaxTimers == 2

\* maxRedistributionPasses
maxRedistributionPasses == 3

\* a check that is content with any skipped session of the task
checkAndHandleAnySkippedSession(closureTasks, taskId, plansToCheck) ==
  LET allSessionsForTask ==
        SelectSeq(AllSessions(plansToCheck), LAMBDA s : s.taskId = taskId)
      i == TaskIndex(closureTasks, taskId)
      handled == /\ \E k \in 1..Len(allSessionsForTask) :
                      allSessionsForTask[k].status = "skipped"
                 /\ i # 0
                 /\ closureTasks[i].status = "pending"
  IN [handled |-> handled,
      tasks |-> IF handled THEN [closureTasks EXCEPT ![i].status = "completed"]
                ELSE closureTasks]

\* returns true after setTasks(updatedTasks); tasks is the value the closure
\* of the handler holds
checkAndHandleSkippedOnlyTask(closureTasks, taskId, plansToCheck) ==
  LET allSessionsForTask ==
        SelectSeq(AllSessions(plansToCheck), LAMBDA s : s.taskId = taskId)
      i == TaskIndex(closureTasks, taskId)
      handled == /\ Len(allSessionsForTask) = 1
                 /\ allSessionsForTask[1].status = "skipped"
                 /\ i # 0
                 /\ closureTasks[i].status = "pending"
  IN [handled |-> handled,
      tasks |-> IF handled THEN [closureTasks EXCEPT ![i].status = "completed"]
                ELSE closureTasks]

\* fired: setTasks(updatedTasks) and setStudyPlans(newPlans) were called;
\* tasks and studyPlans are the values the closure of the handler holds
checkAndCompleteTask(closureTasks, closurePlans, taskId, plansToCheck) ==
  LET allSessionsForTask ==
        SelectSeq(AllSessions(plansToCheck), LAMBDA s : s.taskId = taskId)
      allSessionsDone ==
        /\ Len(allSessionsForTask) > 0
        /\ \A k \in 1..Len(allSessionsForTask) :
             allSessionsForTask[k].done \/ allSessionsForTask[k].status = "skipped"
      i == TaskIndex(closureTasks, taskId)
      fired == allSessionsDone /\ i # 0 /\ closureTasks[i].status # "completed"
      totalCompletedHours ==
        SumHours(SelectSeq(allSessionsForTask,
                           LAMBDA s : s.done \/ s.status = "skipped"))
      updatedTasks ==
        [closureTasks EXCEPT ![i].status = "completed",
                             ![i].estimatedHours = totalCompletedHours]
  IN IF fired
       THEN [fired |-> TRUE, tasks |-> updatedTasks,
             plans |-> PreserveStatus(
                         generateNewStudyPlan(updatedTasks, fixedCommitments,
                                              closurePlans).plans,
                         closurePlans)]
     ELSE [fired |-> FALSE, tasks |-> closureTasks, plans |-> closurePlans]

\* the updater marks the session skipped and hands the check to setTimeout
handleSkipMissedSession(planDate, sessionNumber, taskId) ==
  /\ Len(timers) < MaxTimers
  /\ \E updatedPlans \in
        {AsSeq([i \in 1..Len(studyPlans) |->
           IF studyPlans[i].date = planDate
             THEN [studyPlans[i] EXCEPT !.plannedTasks =
                     AsSeq([k \in 1..Len(@) |->
                        IF @[k].taskId = taskId /\ @[k].sessionNumber = sessionNumber
                          THEN [@[k] EXCEPT !.status = "skipped"]
                        ELSE @[k]])]
           ELSE studyPlans[i]])} :
       /\ studyPlans' = updatedPlans
       /\ timers' = Append(timers, [taskId |-> taskId, updatedPlans |-> updatedPlans,
                                    tasks |-> tasks, studyPlans |-> studyPlans])
       /\ last' = [NoCall EXCEPT !.op = "skip", !.inPlans = studyPlans,
                                 !.outPlans = updatedPlans]
  /\ UNCHANGED <<tasks, settings, fixedCommitments, today, nowMin>>

\* the callback of setTimeout(..., 0): checkAndHandleSkippedOnlyTask, then
\* checkAndCompleteTask when the first did not handle the task
RunDeferredCheck ==
  /\ timers # <<>>
  /\ \E h \in {checkAndHandleSkippedOnlyTask(Head(timers).tasks, Head(timers).taskId,
                                             Head(timers).updatedPlans)} :
     \E c \in {IF h.handled THEN [fired |-> FALSE]
               ELSE checkAndCompleteTask(Head(timers).tasks, Head(timers).studyPlans,
                      Head(timers).taskId, Head(timers).updatedPlans)} :
       /\ tasks' = IF h.handled THEN h.tasks ELSE IF c.fired THEN c.tasks ELSE tasks
       /\ studyPlans' = IF c.fired THEN c.plans ELSE studyPlans
       /\ last' = ("timer" :> Head(timers)) @@ ("before" :> tasks)
                    @@ [NoCall EXCEPT !.op = "check", !.inPlans = studyPlans,
                                      !.outPlans = IF c.fired THEN c.plans
                                                   ELSE studyPlans,
                                      !.success = h.handled \/ c.fired]
  /\ timers' = Tail(timers)
  /\ UNCHANGED <<settings, fixedCommitments, today, nowMin>>

RECURSIVE DeletionPasses(_, _, _, _)
\* "MULTIPLE GLOBAL REDISTRIBUTION PASSES": after is the state a pass leaves;
\* a pass that placed nothing ends the loop before the recombination
DeletionPasses(st, tasksEven, availableDays, redistributionPasses) ==
  IF redistributionPasses >= maxRedistributionPasses THEN st.plans
  ELSE IF SelectSeq(tasksEven, LAMBDA t :
            t.estimatedHours - ScheduledHours(st.plans, t.id) > OneMinuteThreshold)
          = <<>>
    THEN st.plans
  ELSE CHOOSE plans \in
         {IF after.plans = st.plans THEN st.plans
          ELSE DeletionPasses(Combined(after), tasksEven, availableDays,
                              redistributionPasses + 1) :
            after \in {GlobalPass(st,
                         StableSort(SelectSeq(tasksEven, LAMBDA t :
                             t.estimatedHours - ScheduledHours(st.plans, t.id)
                               > OneMinuteThreshold), TaskLess),
                         1, st.plans, availableDays)}} : TRUE

redistributeAfterTaskDeletion(ts, commitments, existingStudyPlans) ==
  IF settings.studyPlanMode # "even"
    THEN generateNewStudyPlan(ts, commitments, <<>>).plans
  ELSE
    LET tasksEven == PendingSorted(ts)
        availableDays == AvailableDays(tasksEven)
        \* existing sessions that count toward the daily limit of a date
        regular(date) ==
          IF PlanIndex(existingStudyPlans, date) = 0 THEN <<>>
          ELSE SelectSeq(existingStudyPlans[PlanIndex(existingStudyPlans, date)].plannedTasks,
                 LAMBDA s : /\ s.status # "skipped"
                            /\ ~isMissedOrRedistributedSession(s, date))
        fresh == FreshState(availableDays)
        charged == [fresh EXCEPT !.rem =
                      [d \in DOMAIN fresh.rem |-> fresh.rem[d] - SumHours(regular(d))]]
    IN AssignTimeSlots(
         DeletionPasses(Combined(DistributeAll(charged, tasksEven, 1, availableDays)),
                        tasksEven, availableDays, 0),
         tasksEven, commitments)

handleDeleteTask(taskId) ==
  LET updatedTasks == SelectSeq(tasks, LAMBDA t : t.id # taskId)
      cleanedPlans ==
        SelectSeq(
          AsSeq([i \in 1..Len(studyPlans) |->
            [studyPlans[i] EXCEPT !.plannedTasks =
               SelectSeq(@, LAMBDA s : s.taskId # taskId)]]),
          LAMBDA plan : Len(plan.plannedTasks) > 0)
  IN /\ \E newPlans \in {redistributeAfterTaskDeletion(updatedTasks, fixedCommitments,
                                                       cleanedPlans)} :
          /\ studyPlans' = newPlans
          /\ last' = ("deleted" :> taskId) @@ ("before" :> tasks)
                       @@ [NoCall EXCEPT !.op = "delete", !.inPlans = studyPlans,
                                         !.outPlans = newPlans]
     /\ tasks' = updatedTasks
     /\ UNCHANGED <<settings, fixedCommitments, today, nowMin, timers>>

\* the App opened on a stored task list, without commitments; the stored
\* plan set is one of the test data or the plan generated for the tasks
TaskInit ==
  /\ settings \in SettingsChoices
  /\ fixedCommitments = <<>>
  /\ tasks \in TaskChoices
  /\ today \in StartDays
  /\ nowMin = 0
  /\ studyPlans \in PlanChoices
                      \cup {generateNewStudyPlan(tasks, fixedCommitments, <<>>).plans}
  /\ last = NoCall
  /\ timers = <<>>

TaskNext ==
  \/ \E i \in 1..Len(studyPlans) : \E k \in 1..Len(studyPlans[i].plannedTasks) :
       /\ checkSessionStatus(studyPlans[i].plannedTasks[k], studyPlans[i].date) = "missed"
       /\ handleSkipMissedSession(studyPlans[i].date,
                                  studyPlans[i].plannedTasks[k].sessionNumber,
                                  studyPlans[i].plannedTasks[k].taskId)
  \/ RunDeferredCheck
  \/ \E t \in 1..Len(tasks) : handleDeleteTask(tasks[t].id)

TaskSpec == TaskInit /\ [][TaskNext]_vars

\* ---------------------------------------------------------------------
\* Properties of the scheduling engine, observed on the last engine call
\* ---------------------------------------------------------------------

\* the set of the elements of a sequence
Range(seq) == {seq[k] : k \in 1..Len(seq)}

\* two sessions both carry clock times and their time ranges intersect
TimesOverlap(a, b) ==
  /\ a.startTime # Empty /\ a.endTime # Empty
  /\ b.startTime # Empty /\ b.endTime # Empty
  /\ slotMinutes(a.startTime) < slotMinutes(b.endTime)
  /\ slotMinutes(b.startTime) < slotMinutes(a.endTime)

\* no two non-skipped sessions of one plan overlap in time
OverlapFree(plans) ==
  \A i \in 1..Len(plans) :
    \A j, k \in 1..Len(plans[i].plannedTasks) :
      (j < k /\ plans[i].plannedTasks[j].status # "skipped"
             /\ plans[i].plannedTasks[k].status # "skipped")
        => ~TimesOverlap(plans[i].plannedTasks[j], plans[i].plannedTasks[k])

\* the last engine call was a redistribution that passed the gate
MoveAttempted == last.op = "redistribute" /\ last.attempted

\* C1: a redistribution that passed the gate and whose result the validator
\* rejects returns the input plans unchanged, with no moved session and every
\* missed session failed; one whose result is returned as moved passes the
\* validator.
RollbackRestoresInput ==
  MoveAttempted =>
    IF last.hasConflicts
      THEN /\ last.outPlans = last.inPlans
           /\ last.movedSessions = <<>>
           /\ Range(last.failedSessions) = Range(MissedSessions(last.inPlans))
      ELSE ~validateStudyPlanConflicts(last.outPlans)

\* C2: a generation, or a redistribution of plans without overlaps, returns
\* plans in which no two non-skipped sessions of one day overlap.
NoOverlapAfterEngineCall ==
  /\ last.op = "generate" => OverlapFree(last.outPlans)
  /\ (last.op = "redistribute" /\ OverlapFree(last.inPlans))
       => OverlapFree(last.outPlans)

\* an occurrence of commitment c on the date is active and intersects the session
OverlapsOccurrence(session, c, date) ==
  /\ AppliesToDate(c, date)
  /\ date \notin c.deletedOccurrences
  /\ session.startTime # Empty /\ session.endTime # Empty
  /\ slotMinutes(session.startTime) < slotMinutes(EffectiveEnd(c, date))
  /\ slotMinutes(EffectiveStart(c, date)) < slotMinutes(session.endTime)

\* C3: no timed, non-skipped, non-redistributed session of a generated plan
\* overlaps an active occurrence of a fixed commitment on its date.
NoGeneratedSessionOverlapsCommitment ==
  last.op = "generate" =>
    \A i \in 1..Len(last.outPlans) :
      \A k \in 1..Len(last.outPlans[i].plannedTasks) :
        \A c \in 1..Len(fixedCommitments) :
          LET session == last.outPlans[i].plannedTasks[k]
          IN (session.status # "skipped" /\ ~HasOriginal(session))
               => ~OverlapsOccurrence(session, fixedCommitments[c],
                                      last.outPlans[i].date)

\* the sessions of a plan that count against the daily capacity
RegularSessions(plan) ==
  SelectSeq(plan.plannedTasks, LAMBDA s : s.status # "skipped" /\ ~HasOriginal(s))

\* C4: in a generated plan set the allocated hours of the non-skipped,
\* non-redistributed sessions of a date, timed or not, sum to at most
\* dailyAvailableHours.
DailyCapacityRespected ==
  last.op = "generate" =>
    \A i \in 1..Len(last.outPlans) :
      SumHours(RegularSessions(last.outPlans[i])) <= settings.dailyAvailableHours

\* a generated day that two or more sessions fill to the daily capacity
DailyCapacityReached ==
  /\ last.op = "generate"
  /\ \E i \in 1..Len(last.outPlans) :
       /\ Len(RegularSessions(last.outPlans[i])) >= 2
       /\ SumHours(RegularSessions(last.outPlans[i])) = settings.dailyAvailableHours

\* the hours of the non-skipped sessions of a task in a plan set
TaskHours(plans, taskId) ==
  SumHours(SelectSeq(AllSessions(plans),
                     LAMBDA s : s.taskId = taskId /\ s.status # "skipped"))

\* C5: in a generated plan set the non-skipped sessions of a pending task sum
\* to at most the task's estimatedHours.
TaskHoursWithinEstimate ==
  last.op = "generate" =>
    \A t \in 1..Len(tasks) :
      tasks[t].status = "pending"
        => TaskHours(last.outPlans, tasks[t].id) <= tasks[t].estimatedHours

\* C6: in a generated plan set every non-redistributed session lasts at least
\* minSessionLength minutes and at most min(4, dailyAvailableHours) hours.
SessionLengthsWithinBounds ==
  last.op = "generate" =>
    \A i \in 1..Len(last.outPlans) :
      \A k \in 1..Len(last.outPlans[i].plannedTasks) :
        LET session == last.outPlans[i].plannedTasks[k]
        IN ~HasOriginal(session)
             => /\ session.allocatedHours >= Mins(settings.minSessionLength)
                /\ session.allocatedHours <= Min2(Hrs(4), settings.dailyAvailableHours)

\* the positions <<plan, entry>> at which a plan set holds the session
PlacesOf(plans, session) ==
  UNION {{<<i, k>> : k \in {n \in 1..Len(plans[i].plannedTasks) :
                              plans[i].plannedTasks[n] = session}} :
           i \in 1..Len(plans)}

\* entry k of plan i of the input is the missed session that m is the moved
\* copy of, gone from its plan in the output while the plan's other sessions
\* that were not themselves up for a move are still there
MovedFrom(m, i, k) ==
  LET source == last.inPlans[i]
      session == source.plannedTasks[k]
      o == PlanIndex(last.outPlans, source.date)
      left == IF o = 0 THEN {} ELSE Range(last.outPlans[o].plannedTasks)
  IN /\ source.date = m.originalDate
     /\ checkSessionStatus(session, source.date) = "missed"
     /\ m = [session EXCEPT !.originalTime = session.startTime,
                            !.originalDate = source.date,
                            !.status = "scheduled",
                            !.startTime = m.startTime,
                            !.endTime = m.endTime]
     /\ session \notin left
     /\ \A j \in 1..Len(source.plannedTasks) :
          (j # k /\ checkSessionStatus(source.plannedTasks[j], source.date) # "missed")
            => source.plannedTasks[j] \in left

\* C7: every session a redistribution reports as moved is in the returned plan
\* set exactly once, stamped with its source date and former start time,
\* status 'scheduled', end = start + allocatedHours; its source plan no longer
\* holds it and keeps its other sessions unchanged.
MovedSessionsPlaced ==
  MoveAttempted =>
    \A n \in 1..Len(last.movedSessions) :
      LET m == last.movedSessions[n]
      IN /\ Cardinality(PlacesOf(last.outPlans, m)) = 1
         /\ m.status = "scheduled"
         /\ m.startTime # Empty
         /\ slotMinutes(m.endTime)
              = slotMinutes(m.startTime) + RoundMinutes(m.allocatedHours)
         /\ \E i \in 1..Len(last.inPlans) :
              \E k \in 1..Len(last.inPlans[i].plannedTasks) : MovedFrom(m, i, k)

\* the gate's three grounds for refusal, on the plans the call was given
NoMissedSessions == MissedSessions(last.inPlans) = <<>>
InsufficientTime == SumHours(MissedSessions(last.inPlans)) > TotalAvailableHours
NoAvailableDay == AvailableDayCount = 0

\* C8: with no missed session, or more missed hours than the next 7 days
\* offer, or no available work day in them, the redistribution moves nothing:
\* the plans are returned as given, success is false, no session is moved and
\* the issues name the reason.
GateRefusalChangesNothing ==
  (last.op = "redistribute" /\ (NoMissedSessions \/ InsufficientTime \/ NoAvailableDay))
    => /\ last.outPlans = last.inPlans
       /\ studyPlans = last.inPlans
       /\ ~last.success
       /\ last.movedSessions = <<>>
       /\ NoMissedSessions => "No missed sessions found" \in Range(last.issues)
       /\ (~NoMissedSessions /\ InsufficientTime)
            => "Insufficient available time" \in Range(last.issues)
       /\ (~NoMissedSessions /\ NoAvailableDay)
            => "No available work days in the next 7 days" \in Range(last.issues)

\* a redistribution refused for want of time alone
InsufficientTimeRefused ==
  /\ last.op = "redistribute"
  /\ ~NoMissedSessions /\ InsufficientTime /\ ~NoAvailableDay
  /\ UrgentTasks(tasks) = <<>>
  /\ last.issues = <<"Insufficient available time">>

\* every skipped session of the plans is an entry of the same plan after the pass
SkippedKept(before, after) ==
  \A i \in 1..Len(before) :
    \A k \in 1..Len(before[i].plannedTasks) :
      before[i].plannedTasks[k].status = "skipped"
        => before[i].plannedTasks[k] \in Range(after[i].plannedTasks)

\* C9: the plain combine pass, applied to the stored plans, and the validated
\* combine pass, as a redistribution runs it, both leave every skipped session
\* in its plan as a separate, unchanged entry.
SkippedSessionsKept ==
  /\ SkippedKept(studyPlans, combineSessionsOnSameDay(studyPlans))
  /\ MoveAttempted => SkippedKept(last.inPlans, last.outPlans)

PastStampedIsScheduled ==
  \A i \in 1..Len(studyPlans) : \A k \in 1..Len(studyPlans[i].plannedTasks) :
    LET s == studyPlans[i].plannedTasks[k]
    IN (/\ ~s.done /\ s.status \notin {"completed", "skipped"}
        /\ studyPlans[i].date < today
        /\ HasOriginal(s))
       => checkSessionStatus(s, studyPlans[i].date) = "scheduled"

\* the Slot Finder as the generator calls it for a date: the timed sessions
\* the date's plan holds, the commitments of the date, the settings' window
\* and buffer
SessionsOn(d) ==
  IF PlanIndex(studyPlans, d) = 0 THEN <<>>
  ELSE SelectSeq(studyPlans[PlanIndex(studyPlans, d)].plannedTasks,
                 LAMBDA x : x.startTime # Empty /\ x.endTime # Empty)

SlotFound(d, requiredHours) ==
  findNextAvailableTimeSlot(requiredHours, SessionsOn(d),
    CommitmentsForDay(fixedCommitments, d), WindowStart, WindowEnd,
    settings.bufferTimeBetweenSessions, d)

\* the busy intervals of that call
SlotBusy(d) ==
  Range(BusyIntervals(SessionsOn(d),
          SelectSeq(CommitmentsForDay(fixedCommitments, d),
                    LAMBDA c : d \notin c.deletedOccurrences), d))

SlotRequests == {Mins(30), Hrs(1), Hrs(2)}

\* a block of the required length starting at minute t fits before the window
\* end, ends by the start of every busy interval it does not come after, and
\* starts no sooner than the buffer after every busy interval that precedes it
FitsAt(d, requiredHours, t) ==
  /\ t >= WindowStart * 60
  /\ t + CeilMinutes(requiredHours) <= WindowEnd * 60
  /\ \A b \in SlotBusy(d) :
       IF b.end <= t THEN t >= b.end + settings.bufferTimeBetweenSessions
       ELSE t + CeilMinutes(requiredHours) <= b.start

\* C12: findNextAvailableTimeSlot returns the earliest start at which the
\* block fits, and returns no slot only when it fits nowhere in the window
SlotIsEarliestFit ==
  \A d \in today..(today + 1) : \A h \in SlotRequests :
    IF SlotFound(d, h).found
      THEN /\ FitsAt(d, h, slotMinutes(SlotFound(d, h).start))
           /\ \A t \in (WindowStart * 60)..(slotMinutes(SlotFound(d, h).start) - 1) :
                ~FitsAt(d, h, t)
    ELSE \A t \in (WindowStart * 60)..(WindowEnd * 60) : ~FitsAt(d, h, t)

\* C13: every slot findNextAvailableTimeSlot returns lies inside the study
\* window, is as long as required and intersects no busy interval it was given
SlotInsideWindowAndFree ==
  \A d \in today..(today + 1) : \A h \in SlotRequests :
    SlotFound(d, h).found =>
      /\ slotMinutes(SlotFound(d, h).start) >= WindowStart * 60
      /\ slotMinutes(SlotFound(d, h).end)
           = slotMinutes(SlotFound(d, h).start) + CeilMinutes(h)
      /\ slotMinutes(SlotFound(d, h).end) <= WindowEnd * 60
      /\ \A b \in SlotBusy(d) :
           ~(/\ slotMinutes(SlotFound(d, h).start) < b.end
             /\ b.start < slotMinutes(SlotFound(d, h).end))

\* the commitments that are active on a date: they apply to it and the date is
\* not among their deleted occurrences
ActiveOn(d) ==
  {k \in 1..Len(fixedCommitments) :
     /\ AppliesToDate(fixedCommitments[k], d)
     /\ d \notin fixedCommitments[k].deletedOccurrences}

\* C14: a commitment occurrence listed in deletedOccurrences contributes no
\* busy interval on its date: with no sessions on the date, the Slot Finder
\* and the redistribution's getBusyTimeSlots hold one busy interval for each
\* active commitment and no other
DeletedOccurrenceNotBusy ==
  \A d \in today..(today + 1) :
    /\ Len(BusyIntervals(<<>>,
             SelectSeq(CommitmentsForDay(fixedCommitments, d),
                       LAMBDA c : d \notin c.deletedOccurrences), d))
         = Cardinality(ActiveOn(d))
    /\ Len(getBusyTimeSlots(<<>>, d)) = Cardinality(ActiveOn(d))

\* C15: the busy interval of an active commitment on a date runs from the
\* modified start time if the date's modifiedOccurrences entry has one (else
\* the base start) to the modified end time if it has one (else the base
\* end), in the Slot Finder and in the redistribution's getBusyTimeSlots
ModifiedOccurrenceBusy ==
  \A d \in today..(today + 1) : \A k \in ActiveOn(d) :
    /\ SlotFinderInterval(fixedCommitments[k], d)
         = [start |-> slotMinutes(EffectiveStart(fixedCommitments[k], d)),
            end |-> slotMinutes(EffectiveEnd(fixedCommitments[k], d))]
    /\ [start |-> T(slotMinutes(EffectiveStart(fixedCommitments[k], d))),
        end |-> T(slotMinutes(EffectiveEnd(fixedCommitments[k], d)))]
         \in Range(getBusyTimeSlots(<<>>, d))

\* the time ranges of two commitments overlap (touching ranges do not)
RangesOverlap(a, b) ==
  /\ slotMinutes(a.startTime) < slotMinutes(b.endTime)
  /\ slotMinutes(b.startTime) < slotMinutes(a.endTime)

\* the dates of the one-off commitment that fall on a weekday of the
\* recurring one
DatesOnWeekdays(oneOff, weekly) ==
  {d \in oneOff.specificDates : getDay(d) \in weekly.daysOfWeek}

\* the two share a weekday (both recurring), a date (both one-off), or a date
\* of the one-off falls on a weekday of the recurring one
SharesDay(a, b) ==
  IF a.recurring /\ b.recurring THEN a.daysOfWeek \cap b.daysOfWeek # {}
  ELSE IF ~a.recurring /\ ~b.recurring THEN a.specificDates \cap b.specificDates # {}
  ELSE IF a.recurring THEN DatesOnWeekdays(b, a) # {}
  ELSE DatesOnWeekdays(a, b) # {}

\* C16: checkCommitmentConflicts reports a conflict exactly when an existing
\* commitment other than the excluded one overlaps the candidate in time and
\* shares a day with it; the reported commitment is such a one, the type is
\* strict for two commitments of the same kind and override for a mixed
\* pair, whose conflictingDates are the one-off's dates on the recurring
\* one's weekdays
ConflictReportedExactly ==
  last.op = "commitment" =>
    LET n == last.commitment
        others == {k \in 1..Len(last.before) :
                     /\ last.before[k].id # n.id
                     /\ RangesOverlap(n, last.before[k])
                     /\ SharesDay(n, last.before[k])}
    IN /\ last.conflicts.hasConflict <=> others # {}
       /\ last.conflicts.hasConflict =>
            \E k \in others :
              /\ last.before[k].id = last.conflicts.conflictingCommitment
              /\ last.conflicts.conflictType
                   = IF n.recurring = last.before[k].recurring THEN "strict"
                     ELSE "override"
              /\ (n.recurring /\ ~last.before[k].recurring)
                   => last.conflicts.conflictingDates = DatesOnWeekdays(last.before[k], n)
              /\ (~n.recurring /\ last.before[k].recurring)
                   => last.conflicts.conflictingDates = DatesOnWeekdays(n, last.before[k])

\* a one-off commitment was checked against a recurring one it overlaps on
\* two of its dates, and a recurring one against a commitment it only touches
OverrideConflictReported ==
  /\ last.op = "commitment"
  /\ last.conflicts.hasConflict
  /\ last.conflicts.conflictType = "override"
  /\ Cardinality(last.conflicts.conflictingDates) = 2

\* C17: after a one-off commitment is added or edited, every other recurring
\* commitment that overlaps it in time has the one-off's dates on its weekdays
\* in its deletedOccurrences, and no other date was added to any commitment's
\* deletedOccurrences
OneOffSuppressesRecurring ==
  (last.op = "commitment" /\ ~last.commitment.recurring) =>
    \A k \in 1..Len(last.before) :
      LET e == last.before[k]
          expected == IF e.recurring /\ e.id # last.commitment.id
                         /\ RangesOverlap(last.commitment, e)
                        THEN DatesOnWeekdays(last.commitment, e) ELSE {}
      IN /\ fixedCommitments[k].id = e.id
         /\ expected \subseteq fixedCommitments[k].deletedOccurrences
         /\ fixedCommitments[k].deletedOccurrences \ e.deletedOccurrences
              \subseteq expected

\* task a is served before task b: important before unimportant, then the
\* earlier deadline
HigherPriority(a, b) ==
  \/ a.importance /\ ~b.importance
  \/ a.importance = b.importance /\ a.deadline < b.deadline

\* the hours the sessions of a task sum to in one plan
HoursIn(plan, taskId) ==
  SumHours(SelectSeq(plan.plannedTasks, LAMBDA s : s.taskId = taskId))

\* the hours of the task's estimate still open when the date's turn comes
RemainingBefore(plans, i, task) ==
  task.estimatedHours
    - SumHours(AsSeq([j \in 1..Len(plans) |->
        [allocatedHours |-> IF plans[j].date < plans[i].date
                              THEN HoursIn(plans[j], task.id) ELSE 0]]))

\* the capacity of the date left when the task's turn comes
CapacityLeftFor(plans, i, task) ==
  settings.dailyAvailableHours
    - SumHours(AsSeq([t \in 1..Len(tasks) |->
        [allocatedHours |-> IF tasks[t].status = "pending"
                                 /\ HigherPriority(tasks[t], task)
                              THEN HoursIn(plans[i], tasks[t].id) ELSE 0]]))

\* C18: in eisenhower mode a task holds hours on a date only if every
\* higher-priority task eligible on that date holds min(its remaining hours,
\* the capacity the date had left for it)
EisenhowerPriorityOrder ==
  (last.op = "generate" /\ settings.studyPlanMode = "eisenhower") =>
    \A i \in 1..Len(last.outPlans) : \A u, t \in 1..Len(tasks) :
      (/\ tasks[u].status = "pending" /\ tasks[t].status = "pending"
       /\ HigherPriority(tasks[t], tasks[u])
       /\ last.outPlans[i].date <= AdjustedDeadline(tasks[t])
       /\ HoursIn(last.outPlans[i], tasks[u].id) > 0)
      => HoursIn(last.outPlans[i], tasks[t].id)
           = Min2(RemainingBefore(last.outPlans, i, tasks[t]),
                  CapacityLeftFor(last.outPlans, i, tasks[t]))

\* the hours the sessions of a task sum to over the plans
HoursOver(plans, taskId) ==
  SumHours(AsSeq([i \in 1..Len(plans) |->
    [allocatedHours |-> HoursIn(plans[i], taskId)]]))

\* the suggestions that name the task
EntriesFor(suggestions, taskId) ==
  SelectSeq(suggestions, LAMBDA e : e.taskTitle = taskId)

\* C19: after a generation in either mode, a pending task whose sessions in
\* the returned plans sum to less than its estimate has a suggestion whose
\* unscheduledMinutes is the shortfall in minutes, and a task allocated in
\* full has none
SuggestionsEqualShortfall ==
  (last.op = "generate") =>
    \A t \in 1..Len(tasks) : tasks[t].status = "pending" =>
      LET shortfall == tasks[t].estimatedHours - HoursOver(last.outPlans, tasks[t].id)
          entries == EntriesFor(last.suggestions, tasks[t].id)
      IN /\ shortfall > 0 =>
              \E k \in 1..Len(entries) :
                Mins(entries[k].unscheduledMinutes) = shortfall
         /\ shortfall <= 0 => entries = <<>>

\* the positions of the pending tasks
PendingTasks == {t \in 1..Len(tasks) : tasks[t].status = "pending"}

\* the work days from today up to the task's buffer-adjusted deadline
EligibleWorkDays(task) ==
  {d \in today..AdjustedDeadline(task) : getDay(d) \in settings.workDays}

\* the case of C20: the result of a generation in even mode for a single
\* pending task, without commitments, whose estimate fits the eligible days
SingleTaskFits(t) ==
  /\ last.op = "generate"
  /\ settings.studyPlanMode = "even"
  /\ PendingTasks = {t}
  /\ fixedCommitments = <<>>
  /\ Hrs(settings.studyWindowEndHour - settings.studyWindowStartHour)
       >= settings.dailyAvailableHours
  /\ tasks[t].estimatedHours
       <= Cardinality(EligibleWorkDays(tasks[t])) * settings.dailyAvailableHours

\* the session starts and ends at times inside the study window
TimedInsideWindow(s) ==
  /\ s.startTime # Empty /\ s.endTime # Empty
  /\ slotMinutes(s.startTime) >= settings.studyWindowStartHour * 60
  /\ slotMinutes(s.startTime) <= slotMinutes(s.endTime)
  /\ slotMinutes(s.endTime) <= settings.studyWindowEndHour * 60

\* C20: in even mode a single pending task without commitments, whose
\* estimate fits the eligible work days, is scheduled in full: its returned
\* sessions sum to estimatedHours, each has times inside the study window,
\* and there are no suggestions
SingleTaskScheduledInFull ==
  \A t \in 1..Len(tasks) : SingleTaskFits(t) =>
    /\ HoursOver(last.outPlans, tasks[t].id) = tasks[t].estimatedHours
    /\ \A i \in 1..Len(last.outPlans) :
         \A k \in 1..Len(last.outPlans[i].plannedTasks) :
           last.outPlans[i].plannedTasks[k].taskId = tasks[t].id
             => TimedInsideWindow(last.outPlans[i].plannedTasks[k])
    /\ last.suggestions = <<>>

\* the hours of the plan's sessions that are done or skipped
ProgressHours(plan) ==
  SumHours(SelectSeq(plan.plannedTasks,
                     LAMBDA s : s.done \/ s.status = "skipped"))

\* C21: in every plan returned by generation and by missed-session
\* redistribution, totalStudyHours is the sum of the hours of the plan's done
\* or skipped sessions
TotalStudyHoursIsProgress ==
  (last.op = "generate" \/ (last.op = "redistribute" /\ last.attempted)) =>
    \A i \in 1..Len(last.outPlans) :
      last.outPlans[i].totalStudyHours = ProgressHours(last.outPlans[i])

\* the sessions of the plans, with their hours, times, numbers and order, and
\* the plans' totalStudyHours
Combination(plans) ==
  AsSeq([i \in 1..Len(plans) |->
    [date |-> plans[i].date, plannedTasks |-> plans[i].plannedTasks,
     totalStudyHours |-> plans[i].totalStudyHours]])

\* C22: a combination pass, plain or validated, applied twice in a row to a
\* plan set yields the same sessions (hours, times, numbers, order) and the
\* same totalStudyHours as applied once
CombinationIdempotent ==
  /\ Combination(combineSessionsOnSameDay(combineSessionsOnSameDay(studyPlans)))
       = Combination(combineSessionsOnSameDay(studyPlans))
  /\ Combination(combineSessionsOnSameDayWithValidation(
                   combineSessionsOnSameDayWithValidation(studyPlans)))
       = Combination(combineSessionsOnSameDayWithValidation(studyPlans))

\* a pass merged two sessions of a task into one, and a pass was then applied
\* to the combined plan set
SessionsMergedTwice ==
  /\ last.op \in {"combine", "combineWithValidation"}
  /\ last.inPlans = last.outPlans
  /\ \E i \in 1..Len(studyPlans) : \E k \in 1..Len(studyPlans[i].plannedTasks) :
       /\ studyPlans[i].plannedTasks[k].allocatedHours = Hrs(1) + Mins(30)
       /\ studyPlans[i].plannedTasks[k].startTime = <<8, 0>>
       /\ studyPlans[i].plannedTasks[k].endTime = <<10, 0>>

\* the sessions of the task that the deferred check was handed
CheckedSessions ==
  SelectSeq(AllSessions(last.timer.updatedPlans),
            LAMBDA s : s.taskId = last.timer.taskId)

\* the task of the deferred check was pending when its session was skipped
CheckedTaskWasPending ==
  \E i \in 1..Len(last.timer.tasks) :
    /\ last.timer.tasks[i].id = last.timer.taskId
    /\ last.timer.tasks[i].status = "pending"

SessionsOfDate(plans, date) ==
  IF PlanIndex(plans, date) = 0 THEN {}
  ELSE Range(plans[PlanIndex(plans, date)].plannedTasks)

\* C24: a missed session that redistribution has moved lies on a date no
\* later than the deadline of its task
MovedWithinDeadline ==
  (last.op = "redistribute" /\ last.attempted) =>
    \A i \in 1..Len(last.outPlans) :
      \A k \in 1..Len(last.outPlans[i].plannedTasks) :
        LET session == last.outPlans[i].plannedTasks[k]
        IN (/\ HasOriginal(session)
            /\ session \notin SessionsOfDate(last.inPlans, last.outPlans[i].date)
            /\ TaskIndex(tasks, session.taskId) # 0)
           => last.outPlans[i].date <= tasks[TaskIndex(tasks, session.taskId)].deadline

\* the hours a plan set allocates to the task, skipped sessions left out
AllocatedTo(plans, taskId) ==
  SumHours(SelectSeq(AllSessions(plans),
                     LAMBDA s : s.taskId = taskId /\ s.status # "skipped"))

\* C25: after a task is deleted in even mode, no remaining pending task is
\* allocated fewer hours than before the deletion, and a task that was
\* allocated its full estimate before is still allocated its full estimate
DeletionKeepsAllocations ==
  (last.op = "delete" /\ settings.studyPlanMode = "even") =>
    \A t \in PendingTasks :
      /\ AllocatedTo(last.outPlans, tasks[t].id) >= AllocatedTo(last.inPlans, tasks[t].id)
      /\ AllocatedTo(last.inPlans, tasks[t].id) >= tasks[t].estimatedHours
           => AllocatedTo(last.outPlans, tasks[t].id) >= tasks[t].estimatedHours

\* the start times at which a session of the duration lies inside the study
\* window of the date and stays clear, by the buffer, of everything that
\* occupies the date; the earliest such start is the window's start or lies
\* one buffer after something that occupies the date
ClearStarts(plans, date, duration) ==
  LET busy == Range(getBusyTimeSlots(plans, date))
      buffer == T(settings.bufferTimeBetweenSessions)
  IN {c \in {T(WindowStart * 60)} \cup {b.end + buffer : b \in busy} :
        /\ c >= T(WindowStart * 60)
        /\ c + duration <= T(WindowEnd * 60)
        /\ \A b \in busy : c >= b.end + buffer \/ c + duration + buffer <= b.start}

\* the work days among today through today+14 with such a start
ClearDays(plans, duration) ==
  {d \in today..(today + 14) :
     /\ getDay(d) \in settings.workDays
     /\ ClearStarts(plans, d, duration) # {}}

\* C26: a missed session is moved to the earliest work day among today
\* through today+14 whose study window has a gap, clear of commitments and
\* sessions by the buffer, as long as the session; it is reported failed only
\* when there is no such day (stated for a redistribution with one missed
\* session, so that the plans the move sees are the plans handed in)
MovedToEarliestClearDay ==
  (MoveAttempted /\ Len(last.movedSessions) + Len(last.failedSessions) = 1) =>
    /\ \A n \in 1..Len(last.failedSessions) :
         ClearDays(last.inPlans, last.failedSessions[n].allocatedHours) = {}
    /\ \A n \in 1..Len(last.movedSessions) :
         \A place \in PlacesOf(last.outPlans, last.movedSessions[n]) :
           LET days == ClearDays(last.inPlans, last.movedSessions[n].allocatedHours)
               date == last.outPlans[place[1]].date
           IN /\ date \in days
              /\ \A d \in days : date <= d

\* C27: with at least one missed session, missed hours within the hours the
\* next 7 days offer and at least one available work day, the redistribution
\* is attempted, whatever the deadlines of the pending tasks
DeadlinesNeverRefuse ==
  (last.op = "redistribute" /\ ~NoMissedSessions /\ ~InsufficientTime /\ ~NoAvailableDay)
    => last.attempted

\* C28: after a task is deleted, in either mode, every done or skipped
\* session of a remaining task is still on its date in the plan set that
\* replaces the old one, and every past date that still holds a session of a
\* remaining task still has its plan
DeletionKeepsHistory ==
  last.op = "delete" =>
    \A i \in 1..Len(last.inPlans) :
      LET plan == last.inPlans[i]
          others == SelectSeq(plan.plannedTasks,
                              LAMBDA s : TaskIndex(tasks, s.taskId) # 0)
      IN /\ \A k \in 1..Len(others) :
              (others[k].done \/ others[k].status \in {"completed", "skipped"})
                => others[k] \in SessionsOfDate(last.outPlans, plan.date)
         /\ (plan.date < today /\ others # <<>>)
              => PlanIndex(last.outPlans, plan.date) # 0

\* the tasks of a list other than the one named
OtherTasks(ts, taskId) == SelectSeq(ts, LAMBDA t : t.id # taskId)

\* C29: whatever was changed between the marking of a session and its
\* deferred completion check is still there after the check: the check
\* leaves every task other than the one it was queued for as it found it,
\* and no session comes back for a task deleted in between
DeferredCheckKeepsOtherChanges ==
  last.op = "check" =>
    /\ OtherTasks(tasks, last.timer.taskId) = OtherTasks(last.before, last.timer.taskId)
    /\ \A i \in 1..Len(studyPlans) :
         \A k \in 1..Len(studyPlans[i].plannedTasks) :
           \/ TaskIndex(last.before, studyPlans[i].plannedTasks[k].taskId) # 0
           \/ studyPlans[i].plannedTasks[k] \in SessionsOfDate(last.inPlans, studyPlans[i].date)

\* the session has no times, or times that span its allocated hours
TimesConsistent(s) ==
  \/ s.startTime = Empty /\ s.endTime = Empty
  \/ /\ s.startTime # Empty /\ s.endTime # Empty
     /\ TimeStrLess(s.startTime, s.endTime)
     /\ slotMinutes(s.endTime) - slotMinutes(s.startTime) = RoundMinutes(s.allocatedHours)

\* C30: in the plan set a generation or a redistribution of missed sessions
\* returns, every session has both times empty, or both set with the start
\* before the end and the span between them equal to its allocated hours
SessionTimesConsistent ==
  last.op \in {"generate", "redistribute"} =>
    \A i \in 1..Len(last.outPlans) :
      \A k \in 1..Len(last.outPlans[i].plannedTasks) :
        TimesConsistent(last.outPlans[i].plannedTasks[k])

====
